---- MODULE Spec2Model ----
(***************************************************************************)
(* Model of the SDMX-ML 2.1 reader (sdmx/reader/sdmxml.py): the Reference  *)
(* descriptor, the URN codec, the Reader's working stack and resolver, and *)
(* the read_message driver with its handlers.                              *)
(*                                                                         *)
(* Python values are modelled as follows.  Every object lives in `heap`    *)
(* (a sequence of records); an object's identity, id(o), is its index.     *)
(* Index 0 is Python's None.  An absent string (None) is NoStr.            *)
(* The working stack, a defaultdict(list) that keeps insertion order, is a *)
(* sequence of buckets [key, vals].                                        *)
(***************************************************************************)
EXTENDS Integers, Sequences, FiniteSets, TLC

VARIABLES
    heap,            \* every object allocated so far; identity = index
    stack,           \* Reader.stack
    ignore,          \* Reader.ignore: a set of identities
    ss_missing_dsd,  \* Reader._ss_missing_dsd
    op,              \* the last operation performed and its arguments
    ret,             \* what the last operation returned (a value, or a record)
    pc,              \* read_message: "idle", "parsing", "returned", "failed"
    err,             \* read_message: the exception raised and its cause
    open,            \* the XML elements whose start event was seen, outermost first
    nev,             \* number of events read so far
    input            \* the element handed to Reference(), for the constructor's own specification

vars == <<heap, stack, ignore, ss_missing_dsd, op, ret, pc, err, open, nev, input>>

None == 0
NoStr == "None"

\* A local variable: With([x \in {v} |-> e]) is e with x bound to the value of v,
\* which is computed once.
With(f) == CHOOSE r \in {g[CHOOSE x \in DOMAIN g : TRUE] : g \in {f}} : TRUE

(***************************************************************************)
(* Bounds of the model.                                                    *)
(***************************************************************************)
MaxHeap == 4
MaxOps == 5
MaxEvents == 14
MaxDepth == 6

(***************************************************************************)
(* The class hierarchy of sdmx.model and sdmx.message, as far as the       *)
(* reader uses it.  Super gives the direct base class.                     *)
(***************************************************************************)
Super(c) ==
    CASE c = "StructureMessage" -> "Message"
      [] c = "DataMessage" -> "Message"
      [] c = "ContentConstraint" -> "MaintainableArtefact"
      [] c = "Codelist" -> "ItemScheme"
      [] c = "ConceptScheme" -> "ItemScheme"
      [] c = "ItemScheme" -> "MaintainableArtefact"
      [] c = "DataStructureDefinition" -> "Structure"
      [] c = "Structure" -> "MaintainableArtefact"
      [] c = "DataflowDefinition" -> "StructureUsage"
      [] c = "StructureUsage" -> "MaintainableArtefact"
      [] c = "Code" -> "Item"
      [] c = "Concept" -> "Item"
      [] c = "DataProvider" -> "Item"
      [] c = "Dimension" -> "DimensionComponent"
      [] c = "MeasureDimension" -> "DimensionComponent"
      [] c = "TimeDimension" -> "DimensionComponent"
      [] c = "DimensionComponent" -> "Component"
      [] c = "DataAttribute" -> "Component"
      [] c = "PrimaryMeasure" -> "Component"
      [] c = "NoSpecifiedRelationship" -> "AttributeRelationship"
      [] c = "DimensionRelationship" -> "AttributeRelationship"
      [] c = "GroupRelationship" -> "AttributeRelationship"
      [] c = "SeriesKey" -> "Key"
      [] c = "GroupKey" -> "Key"
      [] c = "DimensionDescriptor" -> "ComponentList"
      [] c = "AttributeDescriptor" -> "ComponentList"
      [] c = "MeasureDescriptor" -> "ComponentList"
      [] c = "GroupDimensionDescriptor" -> "ComponentList"
      [] OTHER -> "object"

\* The second base classes.
Mixins(c) ==
    IF c \in {"DataflowDefinition", "DataProvider"} THEN {"ConstrainableArtefact"} ELSE {}

RECURSIVE IsSubclass(_, _)
IsSubclass(c, d) ==
    \/ c = d
    \/ c # "object" /\ IsSubclass(Super(c), d)
    \/ \E m \in Mixins(c) : IsSubclass(m, d)

\* The names model.get_class() knows.
ModelClasses ==
    {"Codelist", "ConceptScheme", "ItemScheme", "DataStructureDefinition", "Structure",
     "DataflowDefinition", "StructureUsage", "Code", "Concept", "ContentConstraint",
     "Dimension", "MeasureDimension", "TimeDimension", "DimensionDescriptor",
     "AttributeDescriptor", "MeasureDescriptor", "GroupDimensionDescriptor",
     "DataAttribute", "Key", "SeriesKey", "GroupKey", "DataProvider", "DataProviderScheme",
     "PrimaryMeasure"}

\* model.get_class(name, package): the class of that name; KeyError when there is none.
GetClass(name) == IF name \in ModelClasses THEN name ELSE "KeyError"

\* model.parent_class(cls): the class that contains objects of class cls.
ParentClass(c) ==
    CASE c = "Code" -> "Codelist"
      [] c = "Concept" -> "ConceptScheme"
      [] c = "DataProvider" -> "DataProviderScheme"
      [] c = "Dimension" -> "DimensionDescriptor"
      [] c = "PrimaryMeasure" -> "MeasureDescriptor"
      [] c = "GroupDimensionDescriptor" -> "DataStructureDefinition"
      [] OTHER -> "KeyError"

\* get_sdmx_class(): the renaming of XML names, then model.get_class().
SdmxName(name) ==
    CASE name = "Attribute" -> "DataAttribute"
      [] name = "Dataflow" -> "DataflowDefinition"
      [] name = "DataStructure" -> "DataStructureDefinition"
      [] name = "GroupDimension" -> "Dimension"
      [] name = "ObsKey" -> "Key"
      [] name = "Receiver" -> "Agency"
      [] name = "Sender" -> "Agency"
      [] name = "Source" -> "Agency"
      [] OTHER -> name

get_sdmx_class(name) == GetClass(SdmxName(name))

(***************************************************************************)
(* sdmx.urn: a URN is a sequence of tokens; the punctuation of the regular *)
(* expression (. = : ( )) are tokens of their own, so that an identifier   *)
(* never contains them.  Prefix stands for "urn:sdmx:org.sdmx.infomodel.". *)
(***************************************************************************)
Prefix == "urn:sdmx:org.sdmx.infomodel."

\* The index of the first token of s, from position i on, that is in `stops`; Len(s)+1 if none.
RECURSIVE Upto(_, _, _)
Upto(s, i, stops) ==
    IF i > Len(s) \/ s[i] \in stops THEN i ELSE Upto(s, i + 1, stops)

\* The index of the first token of s, from position i on, that is not in `allowed`.
RECURSIVE UptoNot(_, _, _)
UptoNot(s, i, allowed) ==
    IF i > Len(s) \/ s[i] \notin allowed THEN i ELSE UptoNot(s, i + 1, allowed)

\* The text of the tokens s[i..j-1].  Identifiers are single tokens, so a group of the
\* regular expression holds no token (the empty string) or one.
Join(s, i, j) ==
    IF j <= i THEN "" ELSE IF j = i + 1 THEN s[i] ELSE "?"

\* Tokens made of digits and dots only: what [\d\.]* accepts.
VersionTokens == {"1.0", "2.1"}

\* urn.match(string): URN.match(string).groupdict(); exc is AttributeError when the
\* regular expression does not match (URN.match returns None).
UrnMatch(s) ==
    LET bad == [exc |-> "AttributeError", package |-> NoStr, class |-> NoStr, agency |-> NoStr,
                id |-> NoStr, version |-> NoStr, item_id |-> NoStr]
    IN
    IF Len(s) = 0 \/ s[1] # Prefix THEN bad
    ELSE
    LET p1 == Upto(s, 2, {"."})                  \* (?P<package>[^\.]*)
    IN IF p1 > Len(s) THEN bad                   \* \.
    ELSE
    LET c1 == Upto(s, p1 + 1, {"="})             \* (?P<class>[^=]*)
    IN IF c1 > Len(s) THEN bad                   \* =
    ELSE
    LET a1 == Upto(s, c1 + 1, {":"})             \* ((?P<agency>[^:]*):)?
        hasAgency == a1 <= Len(s)
        i0 == IF hasAgency THEN a1 + 1 ELSE c1 + 1
        i1 == Upto(s, i0, {"(", "."})            \* (?P<id>[^\(\.]*)
        v1 == UptoNot(s, i1 + 1, VersionTokens \cup {"."})
        hasVersion == i1 <= Len(s) /\ s[i1] = "(" /\ v1 <= Len(s) /\ s[v1] = ")"
        j0 == IF hasVersion THEN v1 + 1 ELSE i1  \* (\((?P<version>[\d\.]*)\))?
        hasItem == j0 <= Len(s) /\ s[j0] = "."   \* (\.(?P<item_id>.*))?
    IN [exc |-> "",
        package |-> Join(s, 2, p1),
        class |-> Join(s, p1 + 1, c1),
        agency |-> IF hasAgency THEN Join(s, c1 + 1, a1) ELSE NoStr,
        id |-> Join(s, i0, i1),
        version |-> IF hasVersion THEN Join(s, i1 + 1, v1) ELSE NoStr,
        item_id |-> IF hasItem THEN Join(s, j0 + 1, Len(s) + 1) ELSE NoStr]

(***************************************************************************)
(* XML elements.  An element is a record [tag, attrib, text, children]:    *)
(* tag is [ns, ln] (namespace prefix and local name; ns = "" for an        *)
(* unqualified tag), attrib a function from the names of the attributes    *)
(* present to their values, text a sequence of tokens, children a sequence *)
(* of elements.                                                            *)
(***************************************************************************)
Tag(ns, ln) == [ns |-> ns, ln |-> ln]

Elem(tag, attrib, text, children) ==
    [tag |-> tag, attrib |-> attrib, text |-> text, children |-> children]

NoAttrib == [x \in {} |-> ""]

\* dict.get(name, None)
AttrGet(attrib, name) == IF name \in DOMAIN attrib THEN attrib[name] ELSE NoStr

(***************************************************************************)
(* class Reference.  ReferenceInit is Reference.__init__(elem, cls_hint):  *)
(* exc names the exception raised ("" for none) and ref holds the          *)
(* attributes stored.  A class that could not be determined is NoStr.      *)
(***************************************************************************)
NoRef ==
    [cls |-> NoStr, id |-> NoStr, version |-> NoStr, child_cls |-> NoStr,
     child_id |-> NoStr, maintainable |-> FALSE]

RefRaise(exc) == [exc |-> exc, ref |-> NoRef]

\* ReferenceStore without lines 177-179: the item id of a URN is not used.
ReferenceStoreNoItem(hint, child_cls0, child_id0, id0, version, isUrn, item_id) ==
    LET child_cls == IF hint # NoStr /\ IsSubclass(hint, child_cls0) THEN hint ELSE child_cls0
    IN
    IF child_cls = NoStr THEN RefRaise("TypeError")
    ELSE
    LET maintainable == IsSubclass(child_cls, "MaintainableArtefact")
    IN
    IF ~maintainable /\ ParentClass(child_cls) = "KeyError" THEN RefRaise("KeyError")
    ELSE
    [exc |-> "",
     ref |-> [cls |-> IF maintainable THEN child_cls ELSE ParentClass(child_cls),
              id |-> IF maintainable THEN child_id0 ELSE id0,
              version |-> version,
              child_cls |-> child_cls,
              child_id |-> child_id0,
              maintainable |-> maintainable]]

\* Lines 166-186: the class hint, the maintainable flag and the stored attributes.
ReferenceStore(hint, child_cls0, child_id0, id0, version, isUrn, item_id) ==
    LET child_cls == IF hint # NoStr /\ IsSubclass(hint, child_cls0) THEN hint ELSE child_cls0
    IN
    IF child_cls = NoStr THEN RefRaise("TypeError")
    ELSE
    LET maintainable == IsSubclass(child_cls, "MaintainableArtefact")
    IN
    IF ~maintainable /\ ParentClass(child_cls) = "KeyError" THEN RefRaise("KeyError")
    ELSE
    [exc |-> "",
     ref |-> [cls |-> IF maintainable THEN child_cls ELSE ParentClass(child_cls),
              id |-> IF maintainable THEN child_id0 ELSE id0,
              version |-> version,
              child_cls |-> child_cls,
              child_id |-> IF ~maintainable /\ isUrn THEN item_id ELSE child_id0,
              maintainable |-> maintainable]]

\* RefChildClass with the hint consulted before the tag of the enclosing element.
RefChildClassHintFirst(e, elem, hint) ==
    LET byAttr == IF "class" \in DOMAIN e.attrib /\ "package" \in DOMAIN e.attrib
                    THEN get_sdmx_class(e.attrib["class"])
                    ELSE "KeyError"
        byParent == get_sdmx_class(elem.tag.ln)
    IN IF byAttr # "KeyError" THEN byAttr
       ELSE IF hint # NoStr THEN hint
       ELSE IF byParent # "KeyError" THEN byParent
       ELSE hint

\* Lines 147-155: the class of a <Ref>: its class and package attributes, else the tag
\* of the element around it, else the hint.
RefChildClass(e, elem, hint) ==
    LET byAttr == IF "class" \in DOMAIN e.attrib /\ "package" \in DOMAIN e.attrib
                    THEN get_sdmx_class(e.attrib["class"])
                    ELSE "KeyError"
        byParent == get_sdmx_class(elem.tag.ln)
    IN IF byAttr # "KeyError" THEN byAttr
       ELSE IF byParent # "KeyError" THEN byParent
       ELSE hint

ReferenceInit(elem, cls_hint) ==
    IF Len(elem.children) = 0 THEN RefRaise("NotReference")
    ELSE
    LET e == elem.children[1]
        hint == IF cls_hint # NoStr /\ cls_hint # "" THEN get_sdmx_class(cls_hint) ELSE NoStr
    IN
    IF hint = "KeyError" THEN RefRaise("KeyError")
    ELSE IF e.tag = Tag("", "Ref") THEN
        IF "id" \notin DOMAIN e.attrib THEN RefRaise("KeyError")
        ELSE ReferenceStore(hint, RefChildClass(e, elem, hint), e.attrib["id"],
                            AttrGet(e.attrib, "maintainableParentID"),
                            AttrGet(e.attrib, "maintainableParentVersion"), FALSE, NoStr)
    ELSE IF e.tag = Tag("", "URN") THEN
        LET match == UrnMatch(e.text)
        IN IF match.exc # "" THEN RefRaise(match.exc)
           ELSE IF get_sdmx_class(match.class) = "KeyError" THEN RefRaise("KeyError")
           ELSE ReferenceStore(hint, get_sdmx_class(match.class), match.id, match.id,
                               match.version, TRUE, match.item_id)
    ELSE RefRaise("NotReference")

(***************************************************************************)
(* Objects.  cls is the object's class; id, version, ext                   *)
(* (is_external_reference) are the artefact attributes the reader uses;    *)
(* items are the identities of an ItemScheme's items (or an Item's         *)
(* children); links are the identities of the objects it refers to         *)
(* (structure, enumerated, content, ...); coll are a Message's collections,*)
(* entries [attr, id, obj]; ref are the attributes of a Reference; frame   *)
(* is the content of a stash frame (a dict key -> list); names and descs   *)
(* are the localizations added to name and description, annots the         *)
(* annotations; val is the content of a tuple; parent is the identity of   *)
(* an Item's parent; order is a dimension's order (None when not set),     *)
(* components the components of a ComponentList, dimensions the            *)
(* DimensionDescriptor assigned to a DataStructureDefinition, assigned the *)
(* number of times assign_order() was applied to a DimensionDescriptor,    *)
(* attributes the AttributeDescriptor of a DataStructureDefinition;        *)
(* structured_by and obs are a DataSet's DSD and observations, dimension   *)
(* an Observation's key, keys and attrib the ids of the components and of  *)
(* the attributes a Key has values for, data a DataMessage's data sets,    *)
(* observation_dimension its dimension at observation; values_for is the   *)
(* Component of a MemberSelection (its values are in val), member the      *)
(* mapping of a CubeRegion, entries [key, value] in the order of a dict;   *)
(* urn is the URN of an artefact (NoStr when it has none); group_key is    *)
(* the GroupDimensionDescriptor of an AttributeRelationship, whose          *)
(* dimensions are a list of components.                                    *)
(***************************************************************************)
NewObj(cls, id) ==
    [cls |-> cls, id |-> id, version |-> NoStr, ext |-> FALSE, items |-> <<>>,
     links |-> {}, coll |-> {}, ref |-> NoRef, frame |-> <<>>,
     names |-> <<>>, descs |-> <<>>, annots |-> <<>>, val |-> <<>>, parent |-> None,
     order |-> None, components |-> <<>>, dimensions |-> None, assigned |-> 0,
     attributes |-> None, structured_by |-> None, obs |-> <<>>, dimension |-> None,
     keys |-> <<>>, attrib |-> <<>>, data |-> <<>>, observation_dimension |-> None,
     values_for |-> None, member |-> <<>>, urn |-> NoStr, group_key |-> None]

NewReference(ref) == [NewObj("Reference", ref.id) EXCEPT !.ref = ref]

\* Classes whose instances have no attribute `id` (text pushed by the leaf handlers,
\* stash frames).
NoIdClasses == {"str", "tuple", "dict"}

\* The Reader's state as one value, threaded through its methods.
Rd(h, st, ig, ss) == [heap |-> h, stack |-> st, ignore |-> ig, ss |-> ss]

\* What a method gives back: the state after it, the value returned, the exception raised.
Out(rd, v, exc) == [rd |-> rd, v |-> v, exc |-> exc]

\* A new object: its identity is the next index.
Alloc(rd, obj) == [rd EXCEPT !.heap = Append(@, obj)]

(***************************************************************************)
(* The working stack.  Keys are classes or strings.                        *)
(***************************************************************************)
ClsKey(c) == [k |-> "cls", n |-> c]
StrKey(n) == [k |-> "str", n |-> n]
NoKey == [k |-> "none", n |-> NoStr]

BucketIdx(st, key) ==
    IF \E i \in 1..Len(st) : st[i].key = key
      THEN CHOOSE i \in 1..Len(st) : st[i].key = key
      ELSE 0

\* self.stack.get(key, [])
Bucket(st, key) == IF BucketIdx(st, key) = 0 THEN <<>> ELSE st[BucketIdx(st, key)].vals

\* self.stack[key]: a defaultdict creates the missing bucket, empty, at the end.
Touch(st, key) ==
    IF BucketIdx(st, key) = 0 THEN Append(st, [key |-> key, vals |-> <<>>]) ELSE st

\* self.stack[key].append(v)
StackAppend(st, key, v) ==
    LET t == Touch(st, key)
    IN [t EXCEPT ![BucketIdx(t, key)].vals = Append(@, v)]

\* self.stack[key].extend(vs)
StackExtend(st, key, vs) ==
    LET t == Touch(st, key)
    IN [t EXCEPT ![BucketIdx(t, key)].vals = @ \o vs]

\* self.stack.pop(key): the stack without that bucket.
RECURSIVE Without(_, _)
Without(st, key) ==
    IF st = <<>> THEN <<>>
    ELSE IF Head(st).key = key THEN Tail(st)
    ELSE <<Head(st)>> \o Without(Tail(st), key)

\* A variant of matching_class that takes the class itself only.
MatchExact(cls, key) == key = ClsKey(cls)

\* matching_class(cls) / matching_class0(cls): the key is a class and a subclass of cls.
matching_class(cls, key) == key.k = "cls" /\ IsSubclass(key.n, cls)

\* chain(*[values of the buckets whose key matches cls]), in the order of the buckets.
RECURSIVE MatchingVals(_, _)
MatchingVals(st, cls) ==
    IF st = <<>> THEN <<>>
    ELSE (IF matching_class(cls, Head(st).key) THEN Head(st).vals ELSE <<>>)
         \o MatchingVals(Tail(st), cls)

\* The buckets whose key does not match cls, in order.
RECURSIVE NotMatching(_, _)
NotMatching(st, cls) ==
    IF st = <<>> THEN <<>>
    ELSE (IF matching_class(cls, Head(st).key) THEN <<>> ELSE <<Head(st)>>)
         \o NotMatching(Tail(st), cls)

\* A variant of push(value) that puts the value at the front of its bucket.
Push1Front(rd, v) ==
    IF v = None THEN rd
    ELSE LET key == ClsKey(rd.heap[v].cls)
             t == Touch(rd.stack, key)
         IN [rd EXCEPT !.stack = [t EXCEPT ![BucketIdx(t, key)].vals = <<v>> \o @]]

\* Reader.push(*args) with one argument.
Push1(rd, v) ==
    IF v = None THEN rd
    ELSE [rd EXCEPT !.stack = StackAppend(@, ClsKey(rd.heap[v].cls), v)]

\* Reader.push(*args) with two arguments: key is the first (NoKey for None; the
\* localname for an element), v the second.
Push2(rd, key, v) ==
    IF key = NoKey THEN rd
    ELSE [rd EXCEPT !.stack = StackAppend(@, key, v)]

PushElem(rd, elem, v) == Push2(rd, StrKey(elem.tag.ln), v)

\* A variant of pop_single that takes the value that came first.
PopSingleFirst(rd, key) ==
    LET t == Touch(rd.stack, key)
        i == BucketIdx(t, key)
    IN IF t[i].vals = <<>> THEN Out([rd EXCEPT !.stack = t], None, "")
       ELSE Out([rd EXCEPT !.stack = [t EXCEPT ![i].vals = Tail(@)]], Head(t[i].vals), "")

\* Reader.pop_single(cls_or_name)
PopSingle(rd, key) ==
    LET t == Touch(rd.stack, key)
        i == BucketIdx(t, key)
        n == Len(t[i].vals)
    IN IF n = 0 THEN Out([rd EXCEPT !.stack = t], None, "")
       ELSE Out([rd EXCEPT !.stack = [t EXCEPT ![i].vals = SubSeq(@, 1, n - 1)]],
                t[i].vals[n], "")

\* Reader.pop_all(cls_or_name, strict): v is the list returned.
PopAll(rd, key) ==
    IF key.k = "str"
      THEN Out([rd EXCEPT !.stack = Without(@, key)], Bucket(rd.stack, key), "")
      ELSE Out([rd EXCEPT !.stack = NotMatching(@, key.n)], MatchingVals(rd.stack, key.n), "")

\* obj.id
ObjId(o) == IF o.cls = "Reference" THEN o.ref.id ELSE o.id

\* The id: branch of get(): the first object whose id is `id`; AttributeError when an
\* object before it has no id.
RECURSIVE FirstWithId(_, _, _)
FirstWithId(h, vals, id) ==
    IF vals = <<>> THEN [v |-> None, exc |-> ""]
    ELSE IF Head(vals) = None \/ h[Head(vals)].cls \in NoIdClasses
      THEN [v |-> None, exc |-> "AttributeError"]
    ELSE IF ObjId(h[Head(vals)]) = id THEN [v |-> Head(vals), exc |-> ""]
    ELSE FirstWithId(h, Tail(vals), id)

\* Python's truth value of a string or None.
Truthy(s) == s # NoStr /\ s # ""

\* Reader.get(cls_or_name, id, strict)
Get(rd, key, id, strict) ==
    LET results == IF key.k = "str" \/ strict THEN Bucket(rd.stack, key)
                   ELSE MatchingVals(rd.stack, key.n)
    IN IF Truthy(id) THEN FirstWithId(rd.heap, results, id)
       ELSE [v |-> IF Len(results) # 1 THEN None ELSE results[1], exc |-> ""]

\* dict[key] = vals on a dict kept as a sequence of [key, vals] in insertion order.
DictSet(d, key, vals) ==
    IF \E i \in 1..Len(d) : d[i].key = key
      THEN [i \in 1..Len(d) |-> IF d[i].key = key THEN [key |-> key, vals |-> vals] ELSE d[i]]
      ELSE Append(d, [key |-> key, vals |-> vals])

\* {k: self.pop_all(k, strict=True) for k in keys}: acc is [rd, frame].
RECURSIVE StashPops(_, _)
StashPops(acc, keys) ==
    IF keys = <<>> THEN acc
    ELSE LET o == PopAll(acc.rd, Head(keys))
         IN StashPops([rd |-> o.rd, frame |-> DictSet(acc.frame, Head(keys), o.v)], Tail(keys))

\* Reader.stash(*keys)
Stash(rd, keys) ==
    LET r0 == [rd EXCEPT !.stack = Touch(@, StrKey("_stash"))]
        acc == StashPops([rd |-> r0, frame |-> <<>>], keys)
        r1 == Alloc(acc.rd, [NewObj("dict", NoStr) EXCEPT !.frame = acc.frame])
    IN [r1 EXCEPT !.stack = StackAppend(@, StrKey("_stash"), Len(r1.heap))]

\* for key, values in frame.items(): self.stack[key].extend(values)
RECURSIVE ExtendAll(_, _)
ExtendAll(st, frame) ==
    IF frame = <<>> THEN st
    ELSE ExtendAll(StackExtend(st, Head(frame).key, Head(frame).vals), Tail(frame))

\* A variant of unstash that restores the oldest frame.
UnstashOldest(rd) ==
    LET b == Bucket(rd.stack, StrKey("_stash"))
        t == Touch(rd.stack, StrKey("_stash"))
    IN IF b = <<>> THEN [rd EXCEPT !.stack = t]
       ELSE [rd EXCEPT !.stack =
                ExtendAll([t EXCEPT ![BucketIdx(t, StrKey("_stash"))].vals = Tail(@)],
                          rd.heap[Head(b)].frame)]

\* Reader.unstash()
Unstash(rd) ==
    LET o == PopSingle(rd, StrKey("_stash"))
    IN IF o.v = None THEN o.rd
       ELSE [o.rd EXCEPT !.stack = ExtendAll(@, rd.heap[o.v].frame)]

(***************************************************************************)
(* The artefact constructors.  kw is the keyword arguments, a function     *)
(* from the names given to their values; elem is NoElem for None.          *)
(***************************************************************************)
NoElem == Elem(Tag("", "None"), NoAttrib, <<>>, <<>>)

\* to_snake(): lowerCamelCase to snake_case.
to_snake(name) ==
    CASE name = "isExternalReference" -> "is_external_reference"
      [] name = "isFinal" -> "is_final"
      [] OTHER -> name

\* A variant of setdefault that replaces the value already there.
SetAlways(kw, name, value) ==
    [n \in DOMAIN kw \cup {name} |-> IF n = name THEN value ELSE kw[n]]

\* dict.setdefault(name, value)
SetDefault(kw, name, value) ==
    IF name \in DOMAIN kw THEN kw
    ELSE [n \in DOMAIN kw \cup {name} |-> IF n = name THEN value ELSE kw[n]]

\* setdefault_attrib(target, elem, *names); elem None raises AttributeError, which is
\* swallowed.
RECURSIVE setdefault_attrib(_, _, _)
setdefault_attrib(kw, elem, names) ==
    IF elem = NoElem \/ names = <<>> THEN kw
    ELSE setdefault_attrib(
             IF Head(names) \in DOMAIN elem.attrib
               THEN SetDefault(kw, to_snake(Head(names)), elem.attrib[Head(names)])
               ELSE kw,
             elem, Tail(names))

\* cls(**kwargs): the object the model class builds from the keyword arguments.
Construct(cls, kw) ==
    LET g(n, d) == IF n \in DOMAIN kw THEN kw[n] ELSE d
    IN [NewObj(cls, g("id", NoStr)) EXCEPT
           !.version = g("version", NoStr),
           !.ext = g("is_external_reference", "false") \in {"True", "true"},
           !.items = g("items", <<>>),
           !.links = (IF "content" \in DOMAIN kw THEN kw["content"] ELSE {})
                     \cup (IF "structure" \in DOMAIN kw THEN {kw["structure"]} ELSE {}),
           !.annots = g("annotations", <<>>),
           !.order = g("order", None),
           !.components = g("components", <<>>),
           !.urn = g("urn", NoStr)]

\* Reader.annotable(cls, elem, **kwargs): v is the new object's identity.
annotable(rd, cls, elem, kw) ==
    IF elem = NoElem
      THEN With([r \in {Alloc(rd, Construct(cls, kw))} |-> Out(r, Len(r.heap), "")])
      ELSE With([o \in {PopAll(rd, ClsKey("Annotation"))} |->
           With([kw1 \in {SetDefault(kw, "annotations", <<>>)} |->
           With([r \in {Alloc(o.rd, Construct(cls, [kw1 EXCEPT !["annotations"] = @ \o o.v]))} |->
               Out(r, Len(r.heap), "")])])])

\* Reader.identifiable(cls, elem, **kwargs)
identifiable(rd, cls, elem, kw) ==
    annotable(rd, cls, elem, setdefault_attrib(kw, elem, <<"id">>))

\* Reader.nameable(cls, elem, **kwargs)
nameable(rd, cls, elem, kw) ==
    With([o \in {identifiable(rd, cls, elem, kw)} |->
        IF elem = NoElem THEN o
        ELSE With([n \in {PopAll(o.rd, StrKey("Name"))} |->
             With([d \in {PopAll(n.rd, StrKey("Description"))} |->
                 Out([d.rd EXCEPT !.heap[o.v].names = n.v, !.heap[o.v].descs = d.v], o.v, "")])])])

\* Reader.versionable(cls, elem, **kwargs)
versionable(rd, cls, elem, kw) ==
    nameable(rd, cls, elem, setdefault_attrib(kw, elem, <<"version">>))

\* Reader.maintainable(cls, elem, **kwargs)
maintainable(rd, cls, elem, kw) ==
    versionable(rd, cls, elem,
                setdefault_attrib(kw, elem, <<"isExternalReference", "isFinal", "uri", "urn">>))

\* A variant that leaves is_external_reference out.
StubKwInternal(id) == [n \in {"id"} |-> id]

\* The keyword arguments id=..., is_external_reference=True of an external-reference stub.
StubKw(id) == [n \in {"id", "is_external_reference"} |-> IF n = "id" THEN id ELSE "True"]

\* parent[child_id]: the item of that id; KeyError when the parent has none.
GetItem(h, parent, child_id) ==
    LET hits == {i \in 1..Len(h[parent].items) : h[h[parent].items[i]].id = child_id}
    IN IF hits = {} THEN [v |-> None, exc |-> "KeyError"]
       ELSE [v |-> h[parent].items[CHOOSE i \in hits : \A j \in hits : i <= j], exc |-> ""]

(***************************************************************************)
(* Reader.resolve(cls, ref): ref is a value (an identity, or None).        *)
(***************************************************************************)
resolve(rd, cls, v) ==
    IF v = None \/ rd.heap[v].cls # "Reference" THEN Out(rd, v, "")
    ELSE
    With([ref \in {rd.heap[v].ref} |->
    IF ~(IsSubclass(ref.cls, cls) \/ IsSubclass(ref.child_cls, cls))
      THEN Out(rd, None, "AssertionError")
    ELSE
    With([direct \in {Get(rd, ClsKey(ref.child_cls), ref.child_id, FALSE)} |->
    IF direct.exc # "" THEN Out(rd, None, direct.exc)
    ELSE IF direct.v # None THEN Out(rd, direct.v, "")
    ELSE IF ~ref.maintainable THEN
        With([found \in {Get(rd, ClsKey(ref.cls), ref.id, FALSE)} |->
        IF found.exc # "" THEN Out(rd, None, found.exc)
        ELSE IF found.v # None
          THEN IF rd.heap[found.v].ext THEN Out(rd, None, "")
               ELSE With([child \in {GetItem(rd.heap, found.v, ref.child_id)} |->
                        Out(rd, child.v, child.exc)])
        ELSE With([made \in {maintainable(rd, ref.cls, NoElem, StubKw(ref.id))} |->
             With([r1 \in {Push1(made.rd, made.v)} |->
                 IF r1.heap[made.v].ext THEN Out(r1, None, "")
                 ELSE With([child \in {GetItem(r1.heap, made.v, ref.child_id)} |->
                          Out(r1, child.v, child.exc)])])])])
    ELSE
        With([made \in {maintainable(rd, ref.cls, NoElem, StubKw(ref.id))} |->
            Out(Push1(made.rd, made.v), made.v, "")])])])

\* Reader.pop_resolved_ref(cls, cls_or_name)
pop_resolved_ref(rd, cls, key) ==
    With([o \in {PopSingle(rd, key)} |-> resolve(o.rd, cls, o.v)])

(***************************************************************************)
(* SpecRef: the Reference constructor on its own.  Init draws the element  *)
(* and the class hint; Build applies Reference.__init__ to them.           *)
(***************************************************************************)
Ids == {"A", "B"}

\* Functions from any subset of the keys of `choices` to a value each key allows.
PartialFns(choices) ==
    UNION {[d -> UNION {choices[k] : k \in d}] : d \in SUBSET DOMAIN choices}

AttribsOver(choices) ==
    {f \in PartialFns(choices) : \A k \in DOMAIN f : f[k] \in choices[k]}

\* The attributes a <Ref> may carry.
RefAttribChoices ==
    [n \in {"id", "class", "package", "maintainableParentID", "maintainableParentVersion"} |->
        CASE n = "id" -> Ids
          [] n = "class" -> {"Codelist", "Code", "DataStructure", "Dataflow", "Bogus"}
          [] n = "package" -> {"pkg"}
          [] n = "maintainableParentID" -> {"P"}
          [] n = "maintainableParentVersion" -> {"1.0"}]

RefElems == {Elem(Tag("", "Ref"), a, <<>>, <<>>) : a \in AttribsOver(RefAttribChoices)}

\* urn.make()-style text: package.class=agency:id(version).item_id, the agency, the
\* version and the item being optional.
UrnText(class, agency, id, version, item) ==
    <<Prefix, "pkg", ".", class, "=">>
    \o (IF agency = NoStr THEN <<>> ELSE <<agency, ":">>)
    \o <<id>>
    \o (IF version = NoStr THEN <<>> ELSE <<"(", version, ")">>)
    \o (IF item = NoStr THEN <<>> ELSE <<".", item>>)

UrnTexts ==
    {UrnText(c, a, i, v, t) :
        c \in {"Codelist", "Code", "DataStructure", "Dataflow", "Bogus"},
        a \in {NoStr, "ECB"}, i \in Ids, v \in {NoStr, "1.0"}, t \in {NoStr, "X"}}
    \cup {<<"urn:other">>, <<Prefix, "pkg">>, <<Prefix, "pkg", ".", "Codelist">>}

UrnElems == {Elem(Tag("", "URN"), NoAttrib, t, <<>>) : t \in UrnTexts}

\* The local names of the elements that hold a reference.
EnclosingNames == {"Structure", "StructureUsage", "Enumeration", "Parent", "Code", "Dataflow"}

Hints == {NoStr, "DataStructureDefinition", "Code", "Bogus"}

RefInputs ==
    {[elem |-> Elem(Tag("str", ln), NoAttrib, <<>>, kids), hint |-> h] :
        ln \in EnclosingNames,
        kids \in {<<>>, <<Elem(Tag("com", "Name"), NoAttrib, <<>>, <<>>)>>}
                 \cup {<<e>> : e \in RefElems \cup UrnElems},
        h \in Hints}

NoInput == [elem |-> NoElem, hint |-> NoStr]
NoOp == [kind |-> "none"]
NoErr == [kind |-> "", cause |-> ""]

InitRef ==
    /\ input \in RefInputs
    /\ pc = "ref_in"
    /\ ret = RefRaise("")
    /\ heap = <<>> /\ stack = <<>> /\ ignore = {} /\ ss_missing_dsd = FALSE
    /\ op = NoOp /\ err = NoErr /\ open = <<>> /\ nev = 0

\* Reference(elem, cls_hint)
Build ==
    /\ pc = "ref_in"
    /\ pc' = "ref_out"
    /\ ret' = ReferenceInit(input.elem, input.hint)
    /\ UNCHANGED <<heap, stack, ignore, ss_missing_dsd, op, err, open, nev, input>>

NextRef == Build

SpecRef == InitRef /\ [][NextRef]_vars

\* The first child of the element handed to Reference().
FirstChild == input.elem.children[1]
IsRefInput == Len(input.elem.children) > 0 /\ FirstChild.tag = Tag("", "Ref")
IsUrnInput == Len(input.elem.children) > 0 /\ FirstChild.tag = Tag("", "URN")
Built == pc = "ref_out" /\ ret.exc = ""

(***************************************************************************)
(* C7.  Every Reference built satisfies: maintainable is true exactly when *)
(* child_cls is a subclass of MaintainableArtefact; if maintainable then   *)
(* cls = child_cls and id = child_id; otherwise cls is the parent class of *)
(* child_cls and, for a URN written package.class=agency:id(version).item, *)
(* child_id is the item and id the maintainable's id.                      *)
(***************************************************************************)
C7_ReferenceShape ==
    Built =>
        LET r == ret.ref IN
        /\ r.maintainable <=> IsSubclass(r.child_cls, "MaintainableArtefact")
        /\ r.maintainable => r.cls = r.child_cls /\ r.id = r.child_id
        /\ ~r.maintainable =>
            /\ r.cls = ParentClass(r.child_cls)
            /\ IsUrnInput =>
                 \A c \in {"Codelist", "Code", "DataStructure", "Dataflow", "Bogus"},
                    a \in {NoStr, "ECB"}, i \in Ids, v \in {NoStr, "1.0"}, t \in {NoStr, "X"} :
                     FirstChild.text = UrnText(c, a, i, v, t) => r.child_id = t /\ r.id = i

\* A URN that names an item of a maintainable: the Reference is not maintainable and
\* carries the item's id and the maintainable's id.
C7_Witness ==
    /\ Built /\ IsUrnInput /\ ~ret.ref.maintainable
    /\ FirstChild.text = UrnText("Code", "ECB", "A", "1.0", "X")
    /\ ret.ref.child_id = "X" /\ ret.ref.id = "A" /\ ret.ref.cls = "Codelist"

\* What the class and package attributes of the <Ref> name, what the tag around it
\* names, and the class of the hint ("KeyError" / NoStr when there is none).
NamedClass ==
    IF "class" \in DOMAIN FirstChild.attrib /\ "package" \in DOMAIN FirstChild.attrib
      THEN get_sdmx_class(FirstChild.attrib["class"]) ELSE "KeyError"
TaggedClass == get_sdmx_class(input.elem.tag.ln)
HintClass == IF Truthy(input.hint) THEN get_sdmx_class(input.hint) ELSE NoStr

(***************************************************************************)
(* C8 as stated.  For a <Ref>, the target class is the class named by its  *)
(* class and package attributes when they are present; only when class is  *)
(* absent is the enclosing element's tag used; and the class hint is used  *)
(* only when neither of these yields a class.                              *)
(***************************************************************************)
C8_AsStated ==
    Built /\ IsRefInput =>
        LET r == ret.ref IN
        /\ NamedClass # "KeyError" => r.child_cls = NamedClass
        /\ "class" \in DOMAIN FirstChild.attrib /\ NamedClass = "KeyError"
             => r.child_cls = HintClass
        /\ "class" \notin DOMAIN FirstChild.attrib /\ TaggedClass # "KeyError"
             => r.child_cls = TaggedClass

(***************************************************************************)
(* C8 as amended.  For a <Ref>, the target class is the class named by the *)
(* class attribute when class and package are both present and name a      *)
(* known class; otherwise the class of the enclosing element's tag; when   *)
(* that names no class either, the hint; and whenever the hint is a        *)
(* subclass of the class found so, the hint replaces it.                   *)
(***************************************************************************)
C8_TargetClass ==
    Built /\ IsRefInput =>
        LET r == ret.ref
            base == IF NamedClass # "KeyError" THEN NamedClass
                    ELSE IF TaggedClass # "KeyError" THEN TaggedClass
                    ELSE HintClass
        IN IF HintClass # NoStr /\ IsSubclass(HintClass, base)
             THEN r.child_cls = HintClass
             ELSE r.child_cls = base

\* A <Ref> without class inside <str:Structure>, with the hint DataStructureDefinition:
\* the tag names Structure and the hint narrows it.
C8_Witness ==
    /\ Built /\ IsRefInput
    /\ "class" \notin DOMAIN FirstChild.attrib
    /\ input.elem.tag.ln = "Structure" /\ input.hint = "DataStructureDefinition"
    /\ ret.ref.child_cls = "DataStructureDefinition"

(***************************************************************************)
(* Handlers.  A handler takes the Reader's state, the element and the      *)
(* local name of the element's parent (NoStr at the root) and gives        *)
(* Out(state, value returned, exception).                                  *)
(***************************************************************************)
\* _ref(): the class hint of the element, then push(localname, Reference(elem, hint)).
RefHint(ln, parentLn) ==
    CASE ln = "AttachmentGroup" -> "GroupDimensionDescriptor"
      [] ln = "DimensionReference" -> "Dimension"
      [] ln = "Parent" -> parentLn
      [] ln = "Structure" -> "DataStructureDefinition"
      [] OTHER -> NoStr

_ref(rd, elem, parentLn) ==
    IF parentLn = NoStr THEN Out(rd, None, "ValueError")
    ELSE
    With([built \in {ReferenceInit(elem, RefHint(elem.tag.ln, parentLn))} |->
        IF built.exc # "" THEN Out(rd, None, built.exc)
        ELSE With([r \in {Alloc(rd, NewReference(built.ref))} |->
                 Out(Push2(r, StrKey(elem.tag.ln), Len(r.heap)), None, "")])])

(***************************************************************************)
(* SpecIdem: one external Maintainable referenced from two documents, by   *)
(* <Ref> in one and by <URN> in the other; each document is read by a      *)
(* Reader of its own, whose stack is empty when the reference is resolved. *)
(* target is the Maintainable (its XML class name, agency, id, version),   *)
(* ln the element holding the reference, form "attrs" when the <Ref>       *)
(* carries class and package and "bare" when the type of the enclosing     *)
(* element fixes the class and the <Ref> omits them.                       *)
(***************************************************************************)
IdemInputs ==
    {[target |-> [class |-> c, agency |-> a, id |-> i, version |-> v], ln |-> ln, form |-> f] :
        c \in {"DataStructure", "Dataflow", "Codelist"}, a \in {NoStr, "ECB"}, i \in Ids,
        v \in {NoStr, "1.0"}, ln \in {"Structure", "StructureUsage", "Enumeration"},
        f \in {"attrs", "bare"}}

\* The element a class is referenced from, and whether its <Ref> may omit the class.
SensibleIdem(x) ==
    /\ x.ln = CASE x.target.class = "DataStructure" -> "Structure"
                [] x.target.class = "Dataflow" -> "StructureUsage"
                [] OTHER -> "Enumeration"
    /\ x.form = "bare" => x.ln \in {"Structure", "StructureUsage"}

\* The attributes of the <Ref>: the keys of `keys` that have a value.
RefAttribOf(t, form) ==
    LET all == [n \in {"id", "agencyID", "version", "class", "package"} |->
                   CASE n = "id" -> t.id
                     [] n = "agencyID" -> t.agency
                     [] n = "version" -> t.version
                     [] n = "class" -> IF form = "attrs" THEN t.class ELSE NoStr
                     [] n = "package" -> IF form = "attrs" THEN "pkg" ELSE NoStr]
    IN [n \in {m \in DOMAIN all : all[m] # NoStr} |-> all[n]]

RefDoc(x) ==
    Elem(Tag("com", x.ln), NoAttrib, <<>>,
         <<Elem(Tag("", "Ref"), RefAttribOf(x.target, x.form), <<>>, <<>>)>>)

UrnDoc(x) ==
    Elem(Tag("com", x.ln), NoAttrib, <<>>,
         <<Elem(Tag("", "URN"), NoAttrib,
                UrnText(x.target.class, x.target.agency, x.target.id, x.target.version, NoStr),
                <<>>)>>)

\* The class the handler that consumes the reference asks resolve() for.
ConsumerClass(ln) ==
    CASE ln = "Structure" -> "DataStructureDefinition"
      [] ln = "Enumeration" -> "ItemScheme"
      [] OTHER -> "object"

\* Reading the reference in a fresh Reader: _ref() at the element's end, then
\* pop_resolved_ref() by the handler of the element around it.
StubOf(elem) ==
    With([o1 \in {_ref(Rd(<<>>, <<>>, {None}, FALSE), elem, "Header")} |->
    IF o1.exc # "" THEN [exc |-> o1.exc, cls |-> NoStr, id |-> NoStr, version |-> NoStr, ext |-> FALSE]
    ELSE
    With([o2 \in {pop_resolved_ref(o1.rd, ConsumerClass(elem.tag.ln), StrKey(elem.tag.ln))} |->
    IF o2.exc # "" \/ o2.v = None
      THEN [exc |-> IF o2.exc # "" THEN o2.exc ELSE "NoStub", cls |-> NoStr, id |-> NoStr,
            version |-> NoStr, ext |-> FALSE]
    ELSE [exc |-> "", cls |-> o2.rd.heap[o2.v].cls, id |-> o2.rd.heap[o2.v].id,
          version |-> o2.rd.heap[o2.v].version, ext |-> o2.rd.heap[o2.v].ext]])])

NotParsed == [exc |-> "NotParsed", cls |-> NoStr, id |-> NoStr, version |-> NoStr, ext |-> FALSE]

InitIdem ==
    /\ input \in {x \in IdemInputs : SensibleIdem(x)}
    /\ pc = "idem"
    /\ ret = [byRef |-> NotParsed, byUrn |-> NotParsed]
    /\ heap = <<>> /\ stack = <<>> /\ ignore = {} /\ ss_missing_dsd = FALSE
    /\ op = NoOp /\ err = NoErr /\ open = <<>> /\ nev = 0

\* The document that uses <Ref> is read.
ParseRefDoc ==
    /\ pc = "idem" /\ ret.byRef = NotParsed
    /\ ret' = [ret EXCEPT !.byRef = StubOf(RefDoc(input))]
    /\ UNCHANGED <<heap, stack, ignore, ss_missing_dsd, op, pc, err, open, nev, input>>

\* The document that uses <URN> is read.
ParseUrnDoc ==
    /\ pc = "idem" /\ ret.byUrn = NotParsed
    /\ ret' = [ret EXCEPT !.byUrn = StubOf(UrnDoc(input))]
    /\ UNCHANGED <<heap, stack, ignore, ss_missing_dsd, op, pc, err, open, nev, input>>

NextIdem == ParseRefDoc \/ ParseUrnDoc

SpecIdem == InitIdem /\ [][NextIdem]_vars

(***************************************************************************)
(* C9.  If one document references an external Maintainable by <Ref> and  *)
(* another references the same Maintainable by <URN>, the stubs resolve()  *)
(* creates in the two parses are equal under (class, id, version).         *)
(***************************************************************************)
C9_SameStub ==
    pc = "idem" /\ ret.byRef.exc = "" /\ ret.byUrn.exc = "" =>
        /\ ret.byRef.cls = ret.byUrn.cls
        /\ ret.byRef.id = ret.byUrn.id
        /\ ret.byRef.version = ret.byUrn.version

(***************************************************************************)
(* SpecResolve: the resolver and the working stack as the handlers use     *)
(* them, in any order: a handler's new artefact is pushed, a reference     *)
(* leaf pushes a Reference (_ref), a consumer resolves a Reference that is *)
(* on the stack (as _ms does) or pops and resolves it (pop_resolved_ref),  *)
(* and collectors pop buckets.                                             *)
(***************************************************************************)
\* The reference leaves read: a bare <Ref> in <com:StructureUsage>, a <Ref> with class
\* and package in <str:Enumeration>, a <Ref> or <URN> to a Code in <str:Parent>.
ResolveLeaves ==
    {Elem(Tag("com", "StructureUsage"), NoAttrib, <<>>,
          <<Elem(Tag("", "Ref"), [n \in {"id"} |-> i], <<>>, <<>>)>>) : i \in {"A", ""}}
    \cup
    {Elem(Tag("str", "Enumeration"), NoAttrib, <<>>,
          <<Elem(Tag("", "Ref"),
                 [n \in {"id", "class", "package"} |->
                     CASE n = "id" -> "A" [] n = "class" -> "Codelist" [] OTHER -> "pkg"],
                 <<>>, <<>>)>>)}
    \cup
    {Elem(Tag("str", "Parent"), NoAttrib, <<>>,
          <<Elem(Tag("", "Ref"), a, <<>>, <<>>)>>) :
        a \in {[n \in {"id"} |-> "X"],
               [n \in {"id", "maintainableParentID"} |-> IF n = "id" THEN "X" ELSE "A"]}}
    \cup
    {Elem(Tag("str", "Parent"), NoAttrib, <<>>,
          <<Elem(Tag("", "URN"), NoAttrib, UrnText("Code", "ECB", "A", "1.0", "X"), <<>>)>>)}

\* The artefacts the handlers build: [cls, id, item] with item the id of the one item
\* of a Codelist (NoStr for none).
NewArtefacts ==
    {[cls |-> "DataflowDefinition", id |-> i, item |-> NoStr] : i \in {"A", "B"}}
    \cup {[cls |-> "Codelist", id |-> i, item |-> t] : i \in {"A", "B"}, t \in {NoStr, "X"}}
    \cup {[cls |-> "Code", id |-> "X", item |-> NoStr]}

ResolveClasses == {"object", "DataflowDefinition"}

PopKeys == {ClsKey("Codelist"), ClsKey("StructureUsage"), ClsKey("DataflowDefinition")}

\* The values now on the stack.
OnStack(st) == UNION {{st[i].vals[j] : j \in 1..Len(st[i].vals)} : i \in 1..Len(st)}

CurRd == Rd(heap, stack, ignore, ss_missing_dsd)

\* The Reader's state after an operation; the rest of the model is left alone.
SetRd(r) ==
    /\ heap' = r.heap
    /\ stack' = r.stack
    /\ ignore' = r.ignore
    /\ ss_missing_dsd' = r.ss
    /\ UNCHANGED <<pc, err, open, input>>

InitResolve ==
    /\ heap = <<>> /\ stack = <<>> /\ ignore = {None} /\ ss_missing_dsd = FALSE
    /\ pc = "resolve"
    /\ op = NoOp /\ ret = Out(Rd(<<>>, <<>>, {None}, FALSE), None, "").v
    /\ err = NoErr /\ open = <<>> /\ nev = 0 /\ input = NoInput

\* A handler returns a new artefact and the driver pushes it.
RPushNew(a) ==
    /\ pc = "resolve" /\ nev < MaxOps
    /\ \E r0 \in {IF a.item = NoStr THEN CurRd ELSE Alloc(CurRd, NewObj("Code", a.item))} :
       \E r1 \in {Alloc(r0, [NewObj(a.cls, a.id) EXCEPT
                               !.items = IF a.item = NoStr THEN <<>> ELSE <<Len(r0.heap)>>])} :
          /\ Len(r1.heap) <= MaxHeap
          /\ SetRd(Push1(r1, Len(r1.heap)))
          /\ ret' = Len(r1.heap)
    /\ op' = [kind |-> "push", cls |-> a.cls, v |-> None, made |-> TRUE]
    /\ nev' = nev + 1

\* The end of a reference leaf: _ref().
RRef(e) ==
    /\ pc = "resolve" /\ nev < MaxOps
    /\ \E c \in {CurRd} :
       \E o \in {_ref(c, e, IF e.tag.ln = "Parent" THEN "Code" ELSE "Header")} :
          /\ o.exc = ""
          /\ Len(o.rd.heap) <= MaxHeap
          /\ SetRd(o.rd)
          /\ ret' = Len(o.rd.heap)
    /\ op' = [kind |-> "ref", cls |-> "Reference", v |-> None, made |-> TRUE]
    /\ nev' = nev + 1

\* reader.resolve(cls, v) for a Reference v that is on the stack.
RResolve(cls, v) ==
    /\ pc = "resolve" /\ nev < MaxOps
    /\ v \in OnStack(stack) /\ heap[v].cls = "Reference"
    /\ \E c \in {CurRd} :
       \E o \in {resolve(c, cls, v)} :
          /\ Len(o.rd.heap) <= MaxHeap
          /\ SetRd(o.rd)
          /\ ret' = IF o.exc # "" THEN None ELSE o.v
          /\ op' = [kind |-> "resolve", cls |-> cls, v |-> v, made |-> Len(o.rd.heap) > Len(heap),
                    exc |-> o.exc]
    /\ nev' = nev + 1

\* A collector empties buckets: reader.pop_all(key).
RPopAll(key) ==
    /\ pc = "resolve" /\ nev < MaxOps
    /\ \E o \in {PopAll(CurRd, key)} :
          /\ o.v # <<>>
          /\ SetRd(o.rd)
    /\ ret' = None
    /\ op' = [kind |-> "pop_all", cls |-> key.n, v |-> None, made |-> FALSE]
    /\ nev' = nev + 1

NextResolve ==
    \/ \E a \in NewArtefacts : RPushNew(a)
    \/ \E e \in ResolveLeaves : RRef(e)
    \/ \E cls \in ResolveClasses, v \in 1..MaxHeap : RResolve(cls, v)
    \/ \E key \in PopKeys : RPopAll(key)

SpecResolve == InitResolve /\ [][NextResolve]_vars

\* A step of SpecResolve that is a call resolve(cls, ref) with ref a Reference of the
\* class the caller expects (the assertion of line 327 passes).
ResolveStep == nev' = nev + 1 /\ op'.kind = "resolve" /\ op'.exc # "AssertionError"

\* The Reference resolved by the step.
StepRef == heap[op'.v].ref

\* The positions <<bucket, index>> of the stack whose bucket is keyed by cls or a
\* subclass of it and whose object has the id.
Hits(h, st, cls, id) ==
    {s \in (1..Len(st)) \X (1..MaxHeap) :
        /\ matching_class(cls, st[s[1]].key)
        /\ s[2] <= Len(st[s[1]].vals)
        /\ ObjId(h[st[s[1]].vals[s[2]]]) = id}

\* The stubs an earlier resolve() left on the stack for this class and id.
StubsFor(h, st, cls, id) ==
    {v \in OnStack(st) : h[v].ext /\ h[v].cls = cls /\ h[v].id = id}

\* C5: resolve() on a maintainable reference with no object of the reference's class
\* and id on the stack makes exactly one stub with is_external_reference=true and pushes
\* it; while a stub of that class and id is on the stack, resolve() of a reference with
\* the same class and id returns that stub and pushes nothing.
C5_StubReuse ==
    [][(ResolveStep /\ StepRef.maintainable)
        => /\ (Hits(heap, stack, StepRef.cls, StepRef.id) = {})
                => /\ Len(heap') = Len(heap) + 1
                   /\ heap'[Len(heap')].ext
                   /\ heap'[Len(heap')].cls = StepRef.cls
                   /\ heap'[Len(heap')].id = StepRef.id
                   /\ OnStack(stack') = OnStack(stack) \cup {Len(heap')}
           /\ \A s \in StubsFor(heap, stack, StepRef.cls, StepRef.id) :
                ret' = s /\ stack' = stack /\ heap' = heap]_vars

DataMessageTags ==
    {Tag("mes", ln) : ln \in {"GenericData", "GenericTimeSeriesData", "StructureSpecificData",
                              "StructureSpecificTimeSeriesData"}}

\* The elements of the dimensions of a data structure definition.
ComponentTags ==
    {Tag("str", "Dimension"), Tag("str", "MeasureDimension"), Tag("str", "TimeDimension")}

\* sdmx.format.xml.MESSAGE: the message class of a root element.
MESSAGE(ln) == IF ln = "Structure" THEN "StructureMessage" ELSE "DataMessage"

\* The dispatch table with the unknown pairs skipped like the pairs of SKIP.
ParseOrSkip(tag, event) ==
    CASE tag = Tag("mes", "Structure") ->
            IF event = "start" THEN "_message" ELSE "_header_structure"
      [] tag = Tag("mes", "Structures") -> IF event = "end" THEN "_structures" ELSE "None"
      [] tag = Tag("str", "Codelist") -> IF event = "end" THEN "_itemscheme" ELSE "None"
      [] tag = Tag("str", "Dataflow") -> IF event = "end" THEN "_dfd" ELSE "None"
      [] tag = Tag("str", "ContentConstraint") -> IF event = "end" THEN "_cc" ELSE "None"
      [] tag = Tag("com", "Name") -> IF event = "end" THEN "_localization" ELSE "None"
      [] tag = Tag("str", "Code") -> IF event = "start" THEN "_item_start" ELSE "_item"
      [] tag = Tag("str", "Parent") -> IF event = "end" THEN "_ref" ELSE "None"
      [] tag \in ComponentTags -> IF event = "end" THEN "_component" ELSE "None"
      [] tag = Tag("str", "DimensionList") -> IF event = "end" THEN "_cl" ELSE "None"
      [] tag = Tag("str", "DataStructure") ->
            IF event = "start" THEN "_dsd_start" ELSE "_dsd_end"
      [] tag \in DataMessageTags -> IF event = "start" THEN "_message" ELSE "None"
      [] tag = Tag("mes", "Header") -> IF event = "end" THEN "_header" ELSE "None"
      [] tag = Tag("com", "Structure") -> IF event = "end" THEN "_ref" ELSE "None"
      [] tag = Tag("mes", "DataSet") -> IF event = "start" THEN "_ds_start" ELSE "_ds_end"
      [] tag = Tag("gen", "ObsKey") -> IF event = "end" THEN "_key" ELSE "None"
      [] tag = Tag("gen", "Obs") -> IF event = "end" THEN "_obs" ELSE "None"
      [] tag = Tag("", "Obs") -> IF event = "end" THEN "_obs_ss" ELSE "None"
      [] tag = Tag("", "Group") -> IF event = "end" THEN "_group_ss" ELSE "None"
      [] tag = Tag("", "Series") -> IF event = "end" THEN "_series_ss" ELSE "None"
      [] tag = Tag("str", "DataProvider") -> IF event = "start" THEN "_item_start" ELSE "_item"
      [] tag = Tag("str", "CubeRegion") -> IF event = "end" THEN "_cr" ELSE "None"
      [] tag \in {Tag("com", "KeyValue"), Tag("com", "Attribute")} ->
            IF event = "end" THEN "_ms" ELSE "None"
      [] tag = Tag("com", "Value") -> IF event = "end" THEN "_text" ELSE "None"
      [] tag \in {Tag("str", "Attribute"), Tag("str", "PrimaryMeasure")} ->
            IF event = "end" THEN "_component" ELSE "None"
      [] tag = Tag("str", "AttachmentGroup") -> IF event = "end" THEN "_ref" ELSE "None"
      [] tag = Tag("com", "Description") -> IF event = "end" THEN "_localization" ELSE "None"
      [] tag = Tag("com", "Annotation") -> IF event = "end" THEN "_a" ELSE "None"
      [] tag = Tag("str", "ConceptScheme") -> IF event = "end" THEN "_itemscheme" ELSE "None"
      [] tag = Tag("str", "Concept") -> IF event = "end" THEN "_concept" ELSE "None"
      [] tag = Tag("str", "AttributeRelationship") -> IF event = "end" THEN "_ar" ELSE "None"
      [] tag \in {Tag("str", "AttributeList"), Tag("str", "Group"), Tag("str", "MeasureList")} ->
            IF event = "end" THEN "_cl" ELSE "None"
      [] tag \in {Tag("str", "Structure"), Tag("str", "Enumeration")} ->
            IF event = "end" THEN "_ref" ELSE "None"
      [] tag = Tag("mes", "Test") -> IF event = "end" THEN "_text" ELSE "None"
      [] tag = Tag("com", "StructureUsage") -> IF event = "end" THEN "_ref" ELSE "None"
      [] tag = Tag("gen", "Series") -> IF event = "end" THEN "_series" ELSE "None"
      [] tag = Tag("gen", "SeriesKey") -> IF event = "end" THEN "_key" ELSE "None"
      [] OTHER -> "None"

\* PARSE[tag, event]: the name of the handler, "None" for the pairs that are skipped,
\* "KeyError" for a pair that is not in the table.
PARSE(tag, event) ==
    CASE tag = Tag("mes", "Structure") ->
            IF event = "start" THEN "_message" ELSE "_header_structure"
      [] tag = Tag("mes", "Structures") -> IF event = "end" THEN "_structures" ELSE "None"
      [] tag \in {Tag("str", "Codelists"), Tag("str", "ConstraintAttachment"), Tag("", "Ref"),
                  Tag("str", "DataStructureComponents"), Tag("gen", "ObsDimension"),
                  Tag("gen", "ObsValue"), Tag("gen", "Value"), Tag("str", "Constraints"),
                  Tag("str", "DataStructures"), Tag("str", "OrganisationSchemes"),
                  Tag("str", "CategorySchemes"), Tag("str", "Concepts"),
                  Tag("str", "Dataflows"), Tag("str", "ProvisionAgreements"),
                  Tag("", "URN"), Tag("str", "None"), Tag("com", "Annotations")}
            -> "None"
      [] tag = Tag("str", "Codelist") -> IF event = "end" THEN "_itemscheme" ELSE "None"
      [] tag = Tag("str", "Dataflow") -> IF event = "end" THEN "_dfd" ELSE "None"
      [] tag = Tag("str", "ContentConstraint") -> IF event = "end" THEN "_cc" ELSE "None"
      [] tag = Tag("com", "Name") -> IF event = "end" THEN "_localization" ELSE "None"
      [] tag = Tag("str", "Code") -> IF event = "start" THEN "_item_start" ELSE "_item"
      [] tag = Tag("str", "Parent") -> IF event = "end" THEN "_ref" ELSE "None"
      [] tag \in ComponentTags -> IF event = "end" THEN "_component" ELSE "None"
      [] tag = Tag("str", "DimensionList") -> IF event = "end" THEN "_cl" ELSE "None"
      [] tag = Tag("str", "DataStructure") ->
            IF event = "start" THEN "_dsd_start" ELSE "_dsd_end"
      [] tag \in DataMessageTags -> IF event = "start" THEN "_message" ELSE "None"
      [] tag = Tag("mes", "Header") -> IF event = "end" THEN "_header" ELSE "None"
      [] tag = Tag("com", "Structure") -> IF event = "end" THEN "_ref" ELSE "None"
      [] tag = Tag("mes", "DataSet") -> IF event = "start" THEN "_ds_start" ELSE "_ds_end"
      [] tag = Tag("gen", "ObsKey") -> IF event = "end" THEN "_key" ELSE "None"
      [] tag = Tag("gen", "Obs") -> IF event = "end" THEN "_obs" ELSE "None"
      [] tag = Tag("", "Obs") -> IF event = "end" THEN "_obs_ss" ELSE "None"
      [] tag = Tag("", "Group") -> IF event = "end" THEN "_group_ss" ELSE "None"
      [] tag = Tag("", "Series") -> IF event = "end" THEN "_series_ss" ELSE "None"
      [] tag = Tag("str", "DataProvider") -> IF event = "start" THEN "_item_start" ELSE "_item"
      [] tag = Tag("str", "CubeRegion") -> IF event = "end" THEN "_cr" ELSE "None"
      [] tag \in {Tag("com", "KeyValue"), Tag("com", "Attribute")} ->
            IF event = "end" THEN "_ms" ELSE "None"
      [] tag = Tag("com", "Value") -> IF event = "end" THEN "_text" ELSE "None"
      [] tag \in {Tag("str", "Attribute"), Tag("str", "PrimaryMeasure")} ->
            IF event = "end" THEN "_component" ELSE "None"
      [] tag = Tag("str", "AttachmentGroup") -> IF event = "end" THEN "_ref" ELSE "None"
      [] tag = Tag("com", "Description") -> IF event = "end" THEN "_localization" ELSE "None"
      [] tag = Tag("com", "Annotation") -> IF event = "end" THEN "_a" ELSE "None"
      [] tag = Tag("str", "ConceptScheme") -> IF event = "end" THEN "_itemscheme" ELSE "None"
      [] tag = Tag("str", "Concept") -> IF event = "end" THEN "_concept" ELSE "None"
      [] tag = Tag("str", "AttributeRelationship") -> IF event = "end" THEN "_ar" ELSE "None"
      [] tag \in {Tag("str", "AttributeList"), Tag("str", "Group"), Tag("str", "MeasureList")} ->
            IF event = "end" THEN "_cl" ELSE "None"
      [] tag \in {Tag("str", "Structure"), Tag("str", "Enumeration")} ->
            IF event = "end" THEN "_ref" ELSE "None"
      [] tag = Tag("mes", "Test") -> IF event = "end" THEN "_text" ELSE "None"
      [] tag = Tag("com", "StructureUsage") -> IF event = "end" THEN "_ref" ELSE "None"
      [] tag = Tag("gen", "Series") -> IF event = "end" THEN "_series" ELSE "None"
      [] tag = Tag("gen", "SeriesKey") -> IF event = "end" THEN "_key" ELSE "None"
      [] OTHER -> "KeyError"

\* A variant that never takes the DSD as missing.
MessageNoFlag(rd, elem, parent) ==
    IF parent.tag = Tag("mes", "Header") THEN Out(rd, None, "")
    ELSE With([r2 \in {Alloc(rd, NewObj(MESSAGE(elem.tag.ln), NoStr))} |->
             Out(r2, Len(r2.heap), "")])

\* _message(): the start of a message.
_message(rd, elem, parent) ==
    IF parent.tag = Tag("mes", "Header") THEN Out(rd, None, "")
    ELSE
    With([dsd \in {Get(rd, ClsKey("DataStructureDefinition"), NoStr, FALSE).v} |->
    With([ss \in {elem.tag.ln \in {"StructureSpecificData", "StructureSpecificTimeSeriesData"}} |->
    With([r2 \in {Alloc(IF ss /\ dsd = None THEN [rd EXCEPT !.ss = TRUE] ELSE rd,
              NewObj(MESSAGE(elem.tag.ln), NoStr))} |-> Out(r2, Len(r2.heap), "")])])])

\* The (attribute, class) pairs of _structures(), in its order.
StructuresAttrs ==
    << <<"dataflow", "DataflowDefinition">>, <<"codelist", "Codelist">>,
       <<"constraint", "ContentConstraint">>, <<"structure", "DataStructureDefinition">>,
       <<"category_scheme", "CategoryScheme">>, <<"concept_scheme", "ConceptScheme">>,
       <<"organisation_scheme", "OrganisationScheme">>,
       <<"provisionagreement", "ProvisionAgreement">> >>

\* getattr(msg, attr)[obj.id] = obj, for the objects of vals in turn.
RECURSIVE CollSet(_, _, _, _)
CollSet(h, coll, attr, vals) ==
    IF vals = <<>> THEN coll
    ELSE CollSet(h,
                 {e \in coll : ~(e.attr = attr /\ e.id = h[Head(vals)].id)}
                     \cup {[attr |-> attr, id |-> h[Head(vals)].id, obj |-> Head(vals)]},
                 attr, Tail(vals))

\* The loop of _structures() over the pairs.
RECURSIVE StructuresLoop(_, _, _)
StructuresLoop(rd, msg, pairs) ==
    IF pairs = <<>> THEN Out(rd, None, "")
    ELSE With([o \in {PopAll(rd, ClsKey(Head(pairs)[2]))} |->
             IF o.v = <<>> THEN StructuresLoop(o.rd, msg, Tail(pairs))
             ELSE IF msg = None THEN Out(o.rd, None, "AttributeError")
             ELSE With([r \in {[o.rd EXCEPT !.heap[msg].coll =
                                           CollSet(o.rd.heap, @, Head(pairs)[1], o.v)]} |->
                       StructuresLoop(r, msg, Tail(pairs))])])

\* _structures(): the end of <mes:Structures>.
_structures(rd, elem, parent) ==
    With([msg \in {Get(rd, ClsKey("Message"), NoStr, FALSE).v} |->
    With([o \in {StructuresLoop(rd, msg, StructuresAttrs)} |->
        IF o.exc # "" THEN o
        ELSE Out(PopAll(o.rd, ClsKey("Categorisation")).rd, None, "")])])

\* cls._Item: the class of the items of an item scheme.
ItemClass(cls) == IF cls = "ConceptScheme" THEN "Concept" ELSE "Code"

\* iter(item) for the items of vals in turn: each item, then its descendants.
RECURSIVE IterAll(_, _)
IterAll(h, vals) ==
    IF vals = <<>> THEN <<>>
    ELSE <<Head(vals)>> \o IterAll(h, h[Head(vals)].items) \o IterAll(h, Tail(vals))

\* A variant that keeps the repetitions.
DedupNone(vals, seen) == vals

\* The list without the repetitions of an element, the first occurrence kept.
RECURSIVE Dedup(_, _)
Dedup(vals, seen) ==
    IF vals = <<>> THEN <<>>
    ELSE IF Head(vals) \in seen THEN Dedup(Tail(vals), seen)
    ELSE <<Head(vals)>> \o Dedup(Tail(vals), seen \cup {Head(vals)})

\* _itemscheme(): the end of <str:Codelist>, ...
_itemscheme(rd, elem, parent) ==
    With([cls \in {get_sdmx_class(elem.tag.ln)} |->
        IF cls = "KeyError" THEN Out(rd, None, "KeyError")
        ELSE With([o \in {PopAll(rd, ClsKey(ItemClass(cls)))} |->
             With([items \in {Dedup(IterAll(o.rd.heap, o.v), {})} |->
                 maintainable(o.rd, cls, elem, [n \in {"items"} |-> items])])])])

\* A variant of _dfd() that does not catch NotReference.
DfdNoCatch(rd, elem, parent) ==
    With([built \in {ReferenceInit(elem, NoStr)} |->
    IF built.exc = ""
      THEN With([r \in {Alloc(rd, NewReference(built.ref))} |-> Out(r, Len(r.heap), "")])
    ELSE Out(rd, None, built.exc)])

\* _dfd(): the end of <str:Dataflow>.
_dfd(rd, elem, parent) ==
    With([built \in {ReferenceInit(elem, NoStr)} |->
    IF built.exc = ""
      THEN With([r \in {Alloc(rd, NewReference(built.ref))} |-> Out(r, Len(r.heap), "")])
    ELSE IF built.exc # "NotReference" THEN Out(rd, None, built.exc)
    ELSE With([structure \in {pop_resolved_ref(rd, "DataStructureDefinition",
                                                StrKey("Structure"))} |->
             IF structure.exc # "" THEN Out(structure.rd, None, structure.exc)
             ELSE maintainable(structure.rd, "DataflowDefinition", elem,
                               IF structure.v = None THEN [n \in {} |-> None]
                               ELSE [n \in {"structure"} |-> structure.v])])])

\* The loop of _cc() over the References: acc is [rd, content, exc].
RECURSIVE CcResolve(_, _)
CcResolve(acc, refs) ==
    IF refs = <<>> \/ acc.exc # "" THEN acc
    ELSE With([o \in {resolve(acc.rd, "ConstrainableArtefact", Head(refs))} |->
         With([next \in {[rd |-> o.rd,
              content |-> IF o.exc = "" /\ o.v # None
                            THEN acc.content \cup {o.v} ELSE acc.content,
              exc |-> o.exc]} |-> CcResolve(next, Tail(refs))])])

\* _cc(): the end of <str:ContentConstraint>.
_cc(rd, elem, parent) ==
    IF "type" \notin DOMAIN elem.attrib THEN Out(rd, None, "KeyError")
    ELSE
    With([refs \in {PopAll(rd, ClsKey("Reference"))} |->
    With([acc \in {CcResolve([rd |-> refs.rd, content |-> {}, exc |-> ""], refs.v)} |->
    IF acc.exc # "" THEN Out(acc.rd, None, acc.exc)
    ELSE IF elem.attrib["type"] \notin {"Allowed", "Actual"} THEN Out(acc.rd, None, "KeyError")
    ELSE
    With([keys \in {PopSingle(acc.rd, ClsKey("DataKeySet"))} |->
    With([region \in {PopAll(keys.rd, ClsKey("CubeRegion"))} |->
        nameable(region.rd, "ContentConstraint", elem, [n \in {"content"} |-> acc.content])])])])])

\* _localization(): the end of <com:Name>, ...: push(elem, (lang, text)).
_localization(rd, elem, parent) ==
    With([lang \in {IF "xml:lang" \in DOMAIN elem.attrib THEN elem.attrib["xml:lang"] ELSE "en"} |->
    With([r \in {Alloc(rd, [NewObj("tuple", NoStr) EXCEPT !.val = <<lang, elem.text>>])} |->
        Out(PushElem(r, elem, Len(r.heap)), None, "")])])

\* _item_start(): the start of <str:Code>, ...; elem has the children the parser has
\* read by then.
_item_start(rd, elem, parent) ==
    IF elem.children = <<>> THEN Out(rd, None, "")
    ELSE IF elem.children[1].tag \in {Tag("", "Ref"), Tag("", "URN")} THEN Out(rd, None, "")
    ELSE Out(Stash(rd, <<StrKey("Name")>>), None, "")

\* Item.append_child(other) on the heap h: child is the child, p the parent.
append_child(h, p, child) ==
    [h EXCEPT ![p].items = IF \E i \in 1..Len(@) : @[i] = child THEN @ ELSE Append(@, child),
              ![child].parent = p]

\* The first loop of _item(): one pop_single(cls) and append_child for each child
\* element with the tag of elem; acc is [rd, exc].
RECURSIVE ItemChildren(_, _, _, _, _)
ItemChildren(acc, item, cls, tag, children) ==
    IF children = <<>> \/ acc.exc # "" THEN acc
    ELSE IF Head(children).tag # tag THEN ItemChildren(acc, item, cls, tag, Tail(children))
    ELSE With([o \in {PopSingle(acc.rd, ClsKey(cls))} |->
         With([next \in {IF o.v = None THEN [rd |-> o.rd, exc |-> "AttributeError"]
                         ELSE [rd |-> [o.rd EXCEPT !.heap = append_child(@, item, o.v)],
                               exc |-> ""]} |->
             ItemChildren(next, item, cls, tag, Tail(children))])])

\* _item(): the end of <str:Code>, ...
_item(rd, elem, parent) ==
    With([built \in {ReferenceInit(elem, NoStr)} |->
    IF built.exc = ""
      THEN With([r \in {Alloc(rd, NewReference(built.ref))} |-> Out(r, Len(r.heap), "")])
    ELSE IF built.exc # "NotReference" THEN Out(rd, None, built.exc)
    ELSE
    With([cls \in {get_sdmx_class(elem.tag.ln)} |->
    IF cls = "KeyError" THEN Out(rd, None, "KeyError")
    ELSE
    With([item \in {nameable(rd, cls, elem, [n \in {} |-> None])} |->
    With([acc \in {ItemChildren([rd |-> item.rd, exc |-> ""], item.v, cls, elem.tag,
                                elem.children)} |->
    IF acc.exc # "" THEN Out(acc.rd, None, acc.exc)
    ELSE
    With([p \in {pop_resolved_ref(acc.rd, cls, StrKey("Parent"))} |->
    IF p.exc # "" THEN Out(p.rd, None, p.exc)
    ELSE
    With([r \in {IF p.v # None THEN [p.rd EXCEPT !.heap = append_child(@, p.v, item.v)]
                 ELSE p.rd} |->
        Out(Unstash(r), item.v, "")])])])])])])

\* _concept(): the end of <str:Concept>; the representation popped is the
\* core_representation of what _item() returned.
_concept(rd, elem, parent) ==
    With([concept \in {_item(rd, elem, parent)} |->
    IF concept.exc # "" THEN concept
    ELSE With([rep \in {PopSingle(concept.rd, ClsKey("Representation"))} |->
             Out(IF rep.v = None THEN rep.rd
                 ELSE [rep.rd EXCEPT !.heap[concept.v].links = @ \cup {rep.v}],
                 concept.v, "")])])

\* _a(): the end of <com:Annotation>; the texts popped are the names of the Annotation.
_a(rd, elem, parent) ==
    With([title \in {PopSingle(rd, StrKey("AnnotationTitle"))} |->
    With([type \in {PopSingle(title.rd, StrKey("AnnotationType"))} |->
    With([url \in {PopSingle(type.rd, StrKey("AnnotationURL"))} |->
    With([r \in {Alloc(url.rd, Construct("Annotation",
                                         setdefault_attrib([n \in {} |-> None], elem,
                                                           <<"id">>)))} |->
    With([text \in {PopAll(r, StrKey("AnnotationText"))} |->
        Out([text.rd EXCEPT !.heap[Len(r.heap)].names = text.v], Len(r.heap), "")])])])])])

\* int(s) for the strings the documents of the model have; exc is "ValueError" for a
\* string that is not a number.
IntOf(s) ==
    CASE s = "1" -> [v |-> 1, exc |-> ""]
      [] s = "2" -> [v |-> 2, exc |-> ""]
      [] s = "3" -> [v |-> 3, exc |-> ""]
      [] OTHER -> [v |-> None, exc |-> "ValueError"]

\* a == b for two objects of sdmx.model: the same class, id and version.
ObjEq(h, a, b) ==
    /\ a # None /\ b # None
    /\ h[a].cls = h[b].cls /\ h[a].id = h[b].id /\ h[a].version = h[b].version

\* args[name] = value on the keyword arguments kw.
KwSet(kw, name, value) ==
    [n \in DOMAIN kw \cup {name} |-> IF n = name THEN value ELSE kw[n]]

\* _component(): the end of <str:Dimension>, <str:MeasureDimension>, ...
_component(rd, elem, parent) ==
    With([built \in {ReferenceInit(elem, NoStr)} |->
    IF built.exc = ""
      THEN With([r \in {Alloc(rd, NewReference(built.ref))} |-> Out(r, Len(r.heap), "")])
    ELSE IF built.exc # "NotReference" THEN Out(rd, None, built.exc)
    ELSE
    With([cls \in {get_sdmx_class(elem.tag.ln)} |->
    IF cls = "KeyError" THEN Out(rd, None, "KeyError")
    ELSE
    With([ci \in {pop_resolved_ref(rd, "Concept", StrKey("ConceptIdentity"))} |->
    IF ci.exc # "" THEN Out(ci.rd, None, ci.exc)
    ELSE
    With([rep \in {PopSingle(ci.rd, ClsKey("Representation"))} |->
    With([args \in {[n \in {"concept_identity", "local_representation"} |->
                        IF n = "concept_identity" THEN ci.v ELSE rep.v]} |->
    With([pos \in {IF "position" \in DOMAIN elem.attrib
                     THEN IntOf(elem.attrib["position"]) ELSE [v |-> None, exc |-> "KeyError"]} |->
    IF pos.exc = "ValueError" THEN Out(rep.rd, None, "ValueError")
    ELSE
    With([args1 \in {IF pos.exc = "" THEN KwSet(args, "order", pos.v) ELSE args} |->
    With([ar \in {PopAll(rep.rd, ClsKey("AttributeRelationship"))} |->
    IF Len(ar.v) > 1 THEN Out(ar.rd, None, "AssertionError")
    ELSE identifiable(ar.rd, cls, elem,
                      IF Len(ar.v) = 1 THEN KwSet(args1, "related_to", ar.v[1])
                      ELSE args1)])])])])])])])])

\* ComponentList.get(id) on the heap h: the component of the list cl with that id; None
\* stands for the KeyError of a list that has none.
ComponentGet(h, cl, id) ==
    IF cl = None \/ ~\E i \in 1..Len(h[cl].components) : h[h[cl].components[i]].id = id
      THEN None
      ELSE h[cl].components[
               CHOOSE i \in 1..Len(h[cl].components) :
                  /\ h[h[cl].components[i]].id = id
                  /\ \A j \in 1..(i - 1) : h[h[cl].components[j]].id # id]

\* The loop of _cl() over the references popped from "DimensionReference": the
\* components they name in the dimensions of the DSD, None for one that raises.
RECURSIVE DimensionRefs(_, _, _)
DimensionRefs(h, dsd, refs) ==
    IF refs = <<>> THEN <<>>
    ELSE <<ComponentGet(h, h[dsd].dimensions, h[Head(refs)].ref.child_id)>>
         \o DimensionRefs(h, dsd, Tail(refs))

\* The numbering of the components of a list from place i on: a component whose order
\* is not set gets its place in the list.
RECURSIVE NumberFrom(_, _, _)
NumberFrom(h, comps, i) ==
    IF i > Len(comps) THEN h
    ELSE NumberFrom([h EXCEPT ![comps[i]].order = IF @ = None THEN i ELSE @], comps, i + 1)

\* DimensionDescriptor.assign_order() on the heap h.
assign_order(h, cl) ==
    [NumberFrom(h, h[cl].components, 1) EXCEPT ![cl].assigned = @ + 1]

\* The class of the component list of an element: "GroupDimensionDescriptor" for
\* <str:Group>, else the id attribute or the local name with "List" replaced.
ListClassName(elem) ==
    IF elem.tag.ln = "Group" THEN "GroupDimensionDescriptor"
    ELSE IF "id" \in DOMAIN elem.attrib THEN elem.attrib["id"]
    ELSE CASE elem.tag.ln = "DimensionList" -> "DimensionDescriptor"
           [] elem.tag.ln = "AttributeList" -> "AttributeDescriptor"
           [] elem.tag.ln = "MeasureList" -> "MeasureDescriptor"
           [] OTHER -> elem.tag.ln

\* _cl(): the end of <str:DimensionList>, <str:AttributeList>, ...
_cl(rd, elem, parent) ==
    With([built \in {ReferenceInit(elem, "GroupDimensionDescriptor")} |->
    IF built.exc = ""
      THEN With([r \in {Alloc(rd, NewReference(built.ref))} |-> Out(r, Len(r.heap), "")])
    ELSE IF built.exc # "NotReference" THEN Out(rd, None, built.exc)
    ELSE
    With([dsd \in {Get(rd, ClsKey("DataStructureDefinition"), NoStr, FALSE).v} |->
    IF dsd = None THEN Out(rd, None, "AssertionError")
    ELSE
    With([comps \in {PopAll(rd, ClsKey("Component"))} |->
    With([cls_name \in {ListClassName(elem)} |->
    With([refs \in {PopAll(comps.rd, StrKey("DimensionReference"))} |->
    With([named \in {DimensionRefs(refs.rd.heap, dsd, refs.v)} |->
    IF \E i \in 1..Len(named) : named[i] = None THEN Out(refs.rd, None, "KeyError")
    ELSE
    With([args \in {[n \in {"components"} \cup (IF elem.tag.ln = "Group" THEN {} ELSE {"id"}) |->
                        IF n = "id" THEN cls_name ELSE comps.v \o named]} |->
    With([cls \in {get_sdmx_class(cls_name)} |->
    IF cls = "KeyError" THEN Out(refs.rd, None, "KeyError")
    ELSE
    With([cl \in {identifiable(refs.rd, cls, elem, args)} |->
    With([h \in {IF cls = "DimensionDescriptor" THEN assign_order(cl.rd.heap, cl.v)
                 ELSE cl.rd.heap} |->
        Out([cl.rd EXCEPT !.heap =
                 CASE cls = "DimensionDescriptor" -> [h EXCEPT ![dsd].dimensions = cl.v]
                   [] cls = "AttributeDescriptor" -> [h EXCEPT ![dsd].attributes = cl.v]
                   [] OTHER -> [h EXCEPT ![dsd].links = @ \cup {cl.v}]],
            None, "")])])])])])])])])])])

\* ds.structured_by.group_dimensions[group_id]: the GroupDimensionDescriptor of that id
\* among the component lists of the DSD, None for KeyError.
GroupDimensions(h, dsd, group_id) ==
    LET found == {v \in h[dsd].links :
                     h[v].cls = "GroupDimensionDescriptor" /\ h[v].id = group_id}
    IN IF found = {} THEN None ELSE CHOOSE v \in found : TRUE

\* dsd.measures on the heap h: the MeasureDescriptor last attached to the DSD (objects
\* are numbered as they are made), None for the empty default.
Measures(h, dsd) ==
    With([found \in {{v \in h[dsd].links : h[v].cls = "MeasureDescriptor"}} |->
        IF found = {} THEN None ELSE CHOOSE v \in found : \A w \in found : w <= v])

\* The loop of _ar() over the references popped: args is [dimensions, group_key, exc];
\* a KeyError of the lookup is logged and the loop goes on, any other exception
\* leaves the handler.
RECURSIVE ArLoop(_, _, _, _)
ArLoop(h, dsd, refs, args) ==
    IF refs = <<>> \/ args.exc # "" THEN args
    ELSE
    With([ref \in {h[Head(refs)].ref} |->
    ArLoop(h, dsd, Tail(refs),
        IF IsSubclass(ref.child_cls, "DimensionComponent") THEN
            IF dsd = None THEN [args EXCEPT !.exc = "AttributeError"]
            ELSE With([component \in {ComponentGet(h, h[dsd].dimensions, ref.child_id)} |->
                     IF component = None THEN args
                     ELSE [args EXCEPT !.dimensions = Append(@, component)]])
        ELSE IF IsSubclass(ref.child_cls, "PrimaryMeasure") THEN
            IF dsd = None THEN [args EXCEPT !.exc = "AttributeError"]
            ELSE IF ComponentGet(h, Measures(h, dsd), ref.child_id) = None THEN args
            ELSE [args EXCEPT !.exc = "AssertionError"]
        ELSE IF ref.child_cls = "GroupDimensionDescriptor" THEN
            IF dsd = None THEN [args EXCEPT !.exc = "AttributeError"]
            ELSE With([g \in {GroupDimensions(h, dsd, ref.child_id)} |->
                     IF g = None THEN args ELSE [args EXCEPT !.group_key = g]])
        ELSE args)])

\* "None" in tag, for the tags of the documents of the model.
HasNone(tag) == tag.ln = "None"

\* _ar(): the end of <str:AttributeRelationship>.
_ar(rd, elem, parent) ==
    With([dsd \in {Get(rd, ClsKey("DataStructureDefinition"), NoStr, FALSE).v} |->
    IF elem.children = <<>> THEN Out(rd, None, "IndexError")
    ELSE IF HasNone(elem.children[1].tag)
      THEN With([r \in {Alloc(rd, NewObj("NoSpecifiedRelationship", NoStr))} |->
               Out(r, Len(r.heap), "")])
    ELSE
    With([refs \in {PopAll(rd, ClsKey("Reference"))} |->
    With([args \in {ArLoop(refs.rd.heap, dsd, refs.v,
                           [dimensions |-> <<>>, group_key |-> None, exc |-> ""])} |->
    IF args.exc # "" THEN Out(refs.rd, None, args.exc)
    ELSE
    With([ref \in {PopSingle(refs.rd, StrKey("AttachmentGroup"))} |->
    With([g \in {IF ref.v = None THEN args.group_key
                 ELSE IF dsd = None THEN None
                 ELSE GroupDimensions(ref.rd.heap, dsd, ref.rd.heap[ref.v].ref.child_id)} |->
    IF ref.v # None /\ dsd = None THEN Out(ref.rd, None, "AttributeError")
    ELSE IF ref.v # None /\ g = None THEN Out(ref.rd, None, "KeyError")
    ELSE
    With([r \in {Alloc(ref.rd,
                      IF args.dimensions # <<>>
                        THEN [NewObj("DimensionRelationship", NoStr) EXCEPT
                                 !.dimensions = args.dimensions, !.group_key = g]
                        ELSE [NewObj("GroupRelationship", NoStr) EXCEPT !.group_key = g])} |->
        Out(r, Len(r.heap), "")])])])])])])

\* _dsd_start(): the start of <str:DataStructure>.
_dsd_start(rd, elem, parent) ==
    With([ext_dsd \in {Get(rd, ClsKey("DataStructureDefinition"), NoStr, FALSE).v} |->
    With([candidate \in {maintainable(rd, "DataStructureDefinition", elem,
                                      [n \in {} |-> None])} |->
        Out(IF ObjEq(candidate.rd.heap, candidate.v, ext_dsd) THEN candidate.rd
            ELSE Push1(candidate.rd, candidate.v),
            None, "")])])

\* _dsd_end(): the end of <str:DataStructure>.
_dsd_end(rd, elem, parent) ==
    With([dsd \in {Get(rd, ClsKey("DataStructureDefinition"), NoStr, FALSE).v} |->
    IF dsd = None THEN Out(rd, None, "AttributeError")
    ELSE With([n \in {PopAll(rd, StrKey("Name"))} |->
             Out([n.rd EXCEPT !.heap[dsd].names = @ \o n.v], None, "")])])

\* model.AllDimensions, the singleton for dimensionAtObservation="AllDimensions".
AllDimensions == -1

\* sys.maxsize, the order of a dimension at observation that had to be created (the
\* largest integer of the model).
maxsize == 2147483647

\* The ids of the components of a component list of the heap h (None: an empty list).
ComponentIds(h, cl) ==
    IF cl = None THEN {} ELSE {h[h[cl].components[i]].id : i \in 1..Len(h[cl].components)}

\* ComponentList.getdefault(id, cls=cls, order=order) on the dimensions of the DSD:
\* the dimension of that id, created and appended when there is none; v is the
\* dimension.
getdefault(rd, dsd, id, cls, order) ==
    IF id \in ComponentIds(rd.heap, rd.heap[dsd].dimensions)
      THEN Out(rd, ComponentGet(rd.heap, rd.heap[dsd].dimensions, id), "")
    ELSE
    With([r1 \in {IF rd.heap[dsd].dimensions # None THEN rd
                  ELSE With([r \in {Alloc(rd, NewObj("DimensionDescriptor",
                                                     "DimensionDescriptor"))} |->
                           [r EXCEPT !.heap[dsd].dimensions = Len(r.heap)]])} |->
    With([r2 \in {Alloc(r1, [NewObj(cls, id) EXCEPT !.order = order])} |->
        Out([r2 EXCEPT !.heap[r2.heap[dsd].dimensions].components = Append(@, Len(r2.heap))],
            Len(r2.heap), "")])])

\* The loop of make_key() over the ids: acc is [rd, keys, attrib, exc].
RECURSIVE MakeKeyLoop(_, _, _, _)
MakeKeyLoop(acc, dsd, ids, extend) ==
    IF ids = <<>> \/ acc.exc # "" THEN acc
    ELSE
    With([id \in {Head(ids)} |->
    With([h \in {acc.rd.heap} |->
    IF id \in ComponentIds(h, h[dsd].dimensions)
      THEN MakeKeyLoop([acc EXCEPT !.keys = Append(@, id)], dsd, Tail(ids), extend)
    ELSE IF extend
      THEN With([d \in {getdefault(acc.rd, dsd, id, "Dimension",
                                   Cardinality(ComponentIds(h, h[dsd].dimensions)) + 1)} |->
               MakeKeyLoop([acc EXCEPT !.rd = d.rd, !.keys = Append(@, id)],
                           dsd, Tail(ids), extend)])
    ELSE IF id \in ComponentIds(h, h[dsd].attributes)
      THEN MakeKeyLoop([acc EXCEPT !.attrib = Append(@, id)], dsd, Tail(ids), extend)
    ELSE [acc EXCEPT !.exc = "KeyError"]])])

\* DataStructureDefinition.make_key(key_cls, values, extend): a key of class cls with
\* the values of the ids that name dimensions of the DSD; an id that names none is
\* added to the dimensions when extend is true, else goes to the attributes of the key
\* when it names an attribute of the DSD, else is refused.
make_key(rd, dsd, cls, ids, extend) ==
    IF dsd = None THEN Out(rd, None, "AttributeError")
    ELSE
    With([acc \in {MakeKeyLoop([rd |-> rd, keys |-> <<>>, attrib |-> <<>>, exc |-> ""],
                               dsd, ids, extend)} |->
    IF acc.exc # "" THEN Out(acc.rd, None, acc.exc)
    ELSE With([r \in {Alloc(acc.rd, [NewObj(cls, NoStr) EXCEPT !.keys = acc.keys,
                                                                !.attrib = acc.attrib])} |->
             Out(r, Len(r.heap), "")])])

\* elem.getparent().getparent().tag for the parent of an element: the tag of the
\* element above the parent, when the event carries it.
Up(parent) == IF "up" \in DOMAIN parent THEN parent.up ELSE Tag("", "None")

\* The local names of the messages with "TimeSeries" in the tag.
TimeSeriesNames == {"GenericTimeSeriesData", "StructureSpecificTimeSeriesData"}

\* _header_structure(): the end of <mes:Structure> within <mes:Header>.
_header_structure(rd, elem, parent) ==
    IF parent = NoElem THEN Out(rd, None, "")
    ELSE
    With([msg \in {Get(rd, ClsKey("Message"), NoStr, FALSE).v} |->
    With([provided_dsd \in {Get(rd, ClsKey("DataStructureDefinition"), NoStr, FALSE).v} |->
    With([header_dsd \in {pop_resolved_ref(rd, "DataStructureDefinition",
                                           StrKey("Structure"))} |->
    IF header_dsd.exc # "" THEN Out(header_dsd.rd, None, header_dsd.exc)
    ELSE
    With([header_su \in {pop_resolved_ref(header_dsd.rd, "object", StrKey("StructureUsage"))} |->
    IF header_su.exc # "" THEN Out(header_su.rd, None, header_su.exc)
    ELSE
    With([r0 \in {PopSingle(header_su.rd, ClsKey("StructureUsage")).rd} |->
    With([su_dsd \in {IF provided_dsd = None /\ header_su.v # None
                        THEN maintainable(r0, "DataStructureDefinition", NoElem,
                                 [n \in {"id", "version"} |->
                                     IF n = "id" THEN r0.heap[header_su.v].id
                                     ELSE r0.heap[header_su.v].version])
                        ELSE Out(r0, None, "")} |->
    IF provided_dsd = None /\ header_dsd.v # None /\ header_su.v # None
       /\ ~ObjEq(su_dsd.rd.heap, header_dsd.v, su_dsd.v)
      THEN Out(su_dsd.rd, None, "AssertionError")
    ELSE IF provided_dsd = None /\ header_dsd.v = None /\ header_su.v = None
      THEN Out(su_dsd.rd, None, "RuntimeError")
    ELSE
    With([dsd \in {IF provided_dsd # None THEN provided_dsd
                   ELSE IF header_dsd.v # None THEN header_dsd.v ELSE su_dsd.v} |->
    With([r1 \in {IF provided_dsd # None THEN su_dsd.rd
                  ELSE [(IF header_dsd.v = None THEN Push1(su_dsd.rd, su_dsd.v) ELSE su_dsd.rd)
                           EXCEPT !.ignore = @ \cup {dsd}]} |->
    IF msg = None THEN Out(r1, None, "AttributeError")
    ELSE IF "structureID" \notin DOMAIN elem.attrib THEN
        Out([r1 EXCEPT !.heap[msg].links = @ \cup {dsd}], None, "KeyError")
    ELSE
    With([r2 \in {Push2([r1 EXCEPT !.heap[msg].links = @ \cup {dsd}],
                        StrKey(elem.attrib["structureID"]), dsd)} |->
    IF "dimensionAtObservation" \notin DOMAIN elem.attrib THEN Out(r2, None, "")
    ELSE
    With([dim_at_obs \in {elem.attrib["dimensionAtObservation"]} |->
    IF dim_at_obs = "AllDimensions"
      THEN Out([r2 EXCEPT !.heap[msg].observation_dimension = AllDimensions], None, "")
    ELSE IF provided_dsd # None
      THEN With([dim \in {ComponentGet(r2.heap, r2.heap[dsd].dimensions, dim_at_obs)} |->
               IF dim = None THEN Out(r2, None, "KeyError")
               ELSE Out([r2 EXCEPT !.heap[msg].observation_dimension = dim], None, "")])
    ELSE With([dim \in {getdefault(r2, dsd, dim_at_obs,
                                   IF Up(parent).ln \in TimeSeriesNames
                                     THEN "TimeDimension" ELSE "Dimension",
                                   maxsize)} |->
             Out([dim.rd EXCEPT !.heap[msg].observation_dimension = dim.v], None, "")])
    ])])])])])])])])])])

\* _header(): the end of <mes:Header>.
_header(rd, elem, parent) ==
    With([r1 \in {PopSingle(PopSingle(PopSingle(PopSingle(PopSingle(rd,
                      StrKey("ID")).rd, StrKey("Prepared")).rd, StrKey("Receiver")).rd,
                      StrKey("Sender")).rd, StrKey("Test")).rd} |->
    With([r2 \in {PopAll(r1, StrKey("Source")).rd} |->
    With([msg \in {Get(r2, ClsKey("Message"), NoStr, FALSE).v} |->
    IF msg = None THEN Out(r2, None, "AttributeError")
    ELSE
    With([r3 \in {Alloc(r2, NewObj("Header", NoStr))} |->
    With([r4 \in {[r3 EXCEPT !.heap[msg].links = @ \cup {Len(r3.heap)}]} |->
        Out(PopAll(PopAll(PopAll(r4, StrKey("Timezone")).rd, StrKey("DataSetAction")).rd,
                   StrKey("DataSetID")).rd,
            None, "")])])])])])

\* _ds_start(): the start of <mes:DataSet>.
_ds_start(rd, elem, parent) ==
    With([id \in {IF Truthy(AttrGet(elem.attrib, "structureRef"))
                    THEN AttrGet(elem.attrib, "structureRef")
                    ELSE AttrGet(elem.attrib, "data:structureRef")} |->
    With([r \in {Alloc(rd, NewObj("DataSet", NoStr))} |->
        Out(IF Truthy(id)
              THEN [r EXCEPT !.heap[Len(r.heap)].structured_by =
                                 Get(r, StrKey(id), NoStr, FALSE).v]
              ELSE r,
            Len(r.heap), "")])])

\* _ds_end(): the end of <mes:DataSet>.
_ds_end(rd, elem, parent) ==
    With([ds \in {PopSingle(rd, ClsKey("DataSet"))} |->
    IF ds.v = None THEN Out(ds.rd, None, "AttributeError")
    ELSE
    With([obs \in {PopAll(ds.rd, ClsKey("Observation"))} |->
    With([r \in {[obs.rd EXCEPT !.heap[ds.v].obs = @ \o obs.v]} |->
    With([msg \in {Get(r, ClsKey("Message"), NoStr, FALSE).v} |->
        IF msg = None THEN Out(r, None, "AttributeError")
        ELSE Out([r EXCEPT !.heap[msg].data = Append(@, ds.v)], None, "")])])])])

\* The value of extend in _key().
KeyExtend == TRUE

\* The ids of the children of a key element, in the order of the document; None for a
\* child without an id or a value.
ChildIds(children) ==
    [i \in 1..Len(children) |->
        IF {"id", "value"} \subseteq DOMAIN children[i].attrib
          THEN children[i].attrib["id"] ELSE NoStr]

\* The sequence without the repetitions of an id, as the keys of a dict.
RECURSIVE DictKeys(_, _)
DictKeys(ids, seen) ==
    IF ids = <<>> THEN <<>>
    ELSE IF Head(ids) \in seen THEN DictKeys(Tail(ids), seen)
    ELSE <<Head(ids)>> \o DictKeys(Tail(ids), seen \cup {Head(ids)})

\* _key(): the end of <gen:ObsKey>, <gen:GroupKey>, <gen:SeriesKey>.
_key(rd, elem, parent) ==
    With([cls \in {get_sdmx_class(elem.tag.ln)} |->
    IF cls = "KeyError" THEN Out(rd, None, "KeyError")
    ELSE
    With([kv \in {ChildIds(elem.children)} |->
    IF \E i \in 1..Len(kv) : kv[i] = NoStr THEN Out(rd, None, "KeyError")
    ELSE
    With([ds \in {Get(rd, ClsKey("DataSet"), NoStr, FALSE).v} |->
    IF ds = None THEN Out(rd, None, "AttributeError")
    ELSE make_key(rd, rd.heap[ds].structured_by, cls, DictKeys(kv, {}), KeyExtend)])])])

\* The loop of _obs() over the children of the element: acc is [rd, dimension, exc].
RECURSIVE ObsChildren(_, _, _, _)
ObsChildren(acc, dsd, dim_at_obs, children) ==
    IF children = <<>> \/ acc.exc # "" THEN acc
    ELSE
    With([e \in {Head(children)} |->
    With([next \in {
        CASE e.tag.ln = "Attributes" ->
               [acc EXCEPT !.rd = PopSingle(acc.rd, StrKey("Attributes")).rd]
          [] e.tag.ln = "ObsDimension" ->
               IF dim_at_obs \in {None, AllDimensions} THEN [acc EXCEPT !.exc = "AttributeError"]
               ELSE IF "value" \notin DOMAIN e.attrib THEN [acc EXCEPT !.exc = "KeyError"]
               ELSE With([k \in {make_key(acc.rd, dsd, "Key",
                                          <<acc.rd.heap[dim_at_obs].id>>, FALSE)} |->
                        [rd |-> k.rd, dimension |-> k.v, exc |-> k.exc]])
          [] e.tag.ln = "ObsKey" ->
               With([k \in {PopSingle(acc.rd, ClsKey("Key"))} |->
                   [rd |-> k.rd, dimension |-> k.v, exc |-> ""]])
          [] e.tag.ln = "ObsValue" ->
               IF "value" \notin DOMAIN e.attrib THEN [acc EXCEPT !.exc = "KeyError"] ELSE acc
          [] OTHER -> acc} |->
        ObsChildren(next, dsd, dim_at_obs, Tail(children))])])

\* _obs(): the end of <gen:Obs>.
_obs(rd, elem, parent) ==
    With([msg \in {Get(rd, ClsKey("Message"), NoStr, FALSE).v} |->
    With([ds \in {Get(rd, ClsKey("DataSet"), NoStr, FALSE).v} |->
    IF msg = None \/ ds = None THEN Out(rd, None, "AttributeError")
    ELSE
    With([acc \in {ObsChildren([rd |-> rd, dimension |-> None, exc |-> ""],
                               rd.heap[ds].structured_by,
                               rd.heap[msg].observation_dimension, elem.children)} |->
    IF acc.exc # "" THEN Out(acc.rd, None, acc.exc)
    ELSE With([r \in {Alloc(acc.rd, [NewObj("Observation", NoStr) EXCEPT
                                         !.dimension = acc.dimension])} |->
             Out(r, Len(r.heap), "")])])])])

\* The order in which the documents of the model give the attributes of <Obs>.
ObsAttribOrder == <<"A", "B", "X", "OBS_VALUE">>

\* The names of the attributes of an element, in the order of the element.
AttribNames(attrib) ==
    LET Has(n) == n \in DOMAIN attrib IN SelectSeq(ObsAttribOrder, Has)

\* The sequence without the elements equal to v.
Minus(seq, v) ==
    LET Other(n) == n # v IN SelectSeq(seq, Other)

\* _obs_ss(): the end of <Obs> in a structure-specific message.
_obs_ss(rd, elem, parent) ==
    With([dsd \in {Get(rd, ClsKey("DataStructureDefinition"), NoStr, FALSE).v} |->
    With([key \in {make_key(rd, dsd, "Key", Minus(AttribNames(elem.attrib), "OBS_VALUE"),
                            rd.ss)} |->
    IF key.exc # "" THEN Out(key.rd, None, key.exc)
    ELSE
    With([r1 \in {[key.rd EXCEPT !.heap[key.v].attrib = <<>>]} |->
    With([r \in {Alloc(r1, [NewObj("Observation", NoStr) EXCEPT
                                !.dimension = key.v,
                                !.attrib = key.rd.heap[key.v].attrib])} |->
        Out(r, Len(r.heap), "")])])])])

\* DataSet.add_obs(observations, series_key): the observations are added to the data
\* set, each with the series key (None for none) among the objects it refers to.
RECURSIVE add_obs(_, _, _, _)
add_obs(h, ds, observations, series_key) ==
    IF observations = <<>> THEN h
    ELSE add_obs([h EXCEPT ![ds].obs = Append(@, Head(observations)),
                           ![Head(observations)].links =
                               IF series_key = None THEN @ ELSE @ \cup {series_key}],
                 ds, Tail(observations), series_key)

\* group_id.split(":") for the values of xsi:type in the documents of the model: the
\* parts, <<>> when the text does not split in two (ValueError).
SplitType(group_id) ==
    CASE group_id = "ns:G" -> <<"ns", "G">>
      [] group_id = "ns:H" -> <<"ns", "H">>
      [] OTHER -> <<>>

\* _group_ss(): the end of <Group> in a structure-specific message.
_group_ss(rd, elem, parent) ==
    With([ds \in {Get(rd, ClsKey("DataSet"), NoStr, FALSE).v} |->
    IF ds = None THEN Out(rd, None, "AttributeError")
    ELSE
    With([group_id \in {AttrGet(elem.attrib, "xsi:type")} |->
    With([gk \in {make_key(rd, rd.heap[ds].structured_by, "GroupKey",
                           AttribNames(elem.attrib), rd.ss)} |->
    IF gk.exc # "" THEN Out(gk.rd, None, gk.exc)
    ELSE IF ~Truthy(group_id)
      THEN Out([gk.rd EXCEPT !.heap[ds].links = @ \cup {gk.v}], None, "")
    ELSE IF SplitType(group_id) = <<>> THEN Out(gk.rd, None, "ValueError")
    ELSE
    With([described_by \in {GroupDimensions(gk.rd.heap, gk.rd.heap[ds].structured_by,
                                            SplitType(group_id)[2])} |->
    IF described_by = None /\ ~rd.ss THEN Out(gk.rd, None, "KeyError")
    ELSE Out([gk.rd EXCEPT !.heap[gk.v].links =
                               IF described_by = None THEN @ ELSE @ \cup {described_by},
                           !.heap[ds].links = @ \cup {gk.v}],
             None, "")])])])])

\* _series_ss(): the end of <Series> in a structure-specific message.
_series_ss(rd, elem, parent) ==
    With([ds \in {Get(rd, ClsKey("DataSet"), NoStr, FALSE).v} |->
    IF ds = None THEN Out(rd, None, "AttributeError")
    ELSE
    With([obs \in {PopAll(rd, ClsKey("Observation"))} |->
    With([sk \in {make_key(obs.rd, rd.heap[ds].structured_by, "SeriesKey",
                           AttribNames(elem.attrib), rd.ss)} |->
    IF sk.exc # "" THEN Out(sk.rd, None, sk.exc)
    ELSE Out([sk.rd EXCEPT !.heap = add_obs(sk.rd.heap, ds, obs.v, sk.v)], None, "")])])])

\* _series(): the end of <gen:Series>.
_series(rd, elem, parent) ==
    With([ds \in {Get(rd, ClsKey("DataSet"), NoStr, FALSE).v} |->
    With([sk \in {PopSingle(rd, ClsKey("SeriesKey"))} |->
    With([attrs \in {PopSingle(sk.rd, StrKey("Attributes"))} |->
    IF sk.v = None THEN Out(attrs.rd, None, "AttributeError")
    ELSE
    With([obs \in {PopAll(attrs.rd, ClsKey("Observation"))} |->
    IF ds = None THEN Out(obs.rd, None, "AttributeError")
    ELSE Out([obs.rd EXCEPT !.heap = add_obs(obs.rd.heap, ds, obs.v, sk.v)], None, "")])])])])

\* _text(): the end of <com:Value>, ...: push(elem, elem.text).
_text(rd, elem, parent) ==
    With([r \in {Alloc(rd, [NewObj("str", NoStr) EXCEPT !.val = elem.text])} |->
        Out(PushElem(r, elem, Len(r.heap)), None, "")])

\* Whether objects of the class have the attribute structure.
HasStructure(cls) == IsSubclass(cls, "StructureUsage")

\* dfd.structure on the heap h: the DSD of the dataflow; None stands for the DSD without
\* components of a dataflow that was given none.
StructureOf(h, dfd) ==
    LET found == {v \in h[dfd].links : h[v].cls = "DataStructureDefinition"}
    IN IF found = {} THEN None ELSE CHOOSE v \in found : TRUE

\* _ms(): the end of <com:KeyValue> and <com:Attribute>.
_ms(rd, elem, parent) ==
    With([kind \in {IF elem.tag.ln = "KeyValue" THEN <<"dimensions", "Dimension">>
                    ELSE <<"attributes", "DataAttribute">>} |->
    With([r0 \in {[rd EXCEPT !.stack = Touch(@, ClsKey("Reference"))]} |->
    With([cc_content \in {Bucket(r0.stack, ClsKey("Reference"))} |->
    IF Len(cc_content) # 1 THEN Out(r0, None, "AssertionError")
    ELSE
    With([dfd \in {resolve(r0, "ConstrainableArtefact", cc_content[1])} |->
    IF dfd.exc \notin {"", "AttributeError"} THEN Out(dfd.rd, None, dfd.exc)
    ELSE IF "id" \notin DOMAIN elem.attrib THEN Out(dfd.rd, None, "KeyError")
    ELSE
    With([found \in {
        IF dfd.exc = "AttributeError" \/ dfd.v = None \/ ~HasStructure(dfd.rd.heap[dfd.v].cls)
          THEN Get(dfd.rd, ClsKey(kind[2]), elem.attrib["id"], FALSE)
        ELSE With([dsd \in {StructureOf(dfd.rd.heap, dfd.v)} |->
             With([cl \in {IF dsd = None THEN None
                           ELSE IF kind[1] = "dimensions" THEN dfd.rd.heap[dsd].dimensions
                           ELSE dfd.rd.heap[dsd].attributes} |->
             With([c \in {ComponentGet(dfd.rd.heap, cl, elem.attrib["id"])} |->
                 [v |-> c, exc |-> IF c = None THEN "KeyError" ELSE ""]])])])} |->
    IF found.exc # "" THEN Out(dfd.rd, None, found.exc)
    ELSE
    With([values \in {PopAll(dfd.rd, StrKey("Value"))} |->
    IF found.v = None THEN Out(values.rd, None, "")
    ELSE With([r \in {Alloc(values.rd, [NewObj("MemberSelection", NoStr) EXCEPT
                                           !.values_for = found.v, !.val = values.v])} |->
             Out(r, Len(r.heap), "")])])])])])])])

\* A variant of MemberDict that keeps one entry for each selection, not one for each
\* component.
RECURSIVE MemberList(_, _, _)
MemberList(h, acc, sels) ==
    IF sels = <<>> THEN acc
    ELSE MemberList(h, Append(acc, [key |-> h[Head(sels)].values_for, value |-> Head(sels)]),
                    Tail(sels))

\* {ms.values_for: ms for ms in sels} on the heap h: acc is the dict so far, a key equal
\* to one that is there keeps its place and the key object, and gets the new value.
RECURSIVE MemberDict(_, _, _)
MemberDict(h, acc, sels) ==
    IF sels = <<>> THEN acc
    ELSE
    With([k \in {h[Head(sels)].values_for} |->
    With([hit \in {{i \in 1..Len(acc) : acc[i].key = k \/ ObjEq(h, acc[i].key, k)}} |->
        MemberDict(h,
                   IF hit = {} THEN Append(acc, [key |-> k, value |-> Head(sels)])
                   ELSE [i \in 1..Len(acc) |->
                            IF i \in hit THEN [key |-> acc[i].key, value |-> Head(sels)]
                            ELSE acc[i]],
                   Tail(sels))])])

\* _cr(): the end of <str:CubeRegion>.
_cr(rd, elem, parent) ==
    IF "include" \notin DOMAIN elem.attrib THEN Out(rd, None, "KeyError")
    ELSE
    With([sels \in {PopAll(rd, ClsKey("MemberSelection"))} |->
    With([r \in {Alloc(sels.rd, [NewObj("CubeRegion", NoStr) EXCEPT
                                    !.member = MemberDict(sels.rd.heap, <<>>, sels.v)])} |->
        Out(r, Len(r.heap), "")])])

\* func(self, element) for the handler of that name.
Call(func, rd, elem, parent) ==
    CASE func = "_message" -> _message(rd, elem, parent)
      [] func = "_header_structure" -> _header_structure(rd, elem, parent)
      [] func = "_structures" -> _structures(rd, elem, parent)
      [] func = "_itemscheme" -> _itemscheme(rd, elem, parent)
      [] func = "_dfd" -> _dfd(rd, elem, parent)
      [] func = "_cc" -> _cc(rd, elem, parent)
      [] func = "_localization" -> _localization(rd, elem, parent)
      [] func = "_item_start" -> _item_start(rd, elem, parent)
      [] func = "_item" -> _item(rd, elem, parent)
      [] func = "_ref" -> _ref(rd, elem, parent.tag.ln)
      [] func = "_component" -> _component(rd, elem, parent)
      [] func = "_cl" -> _cl(rd, elem, parent)
      [] func = "_dsd_start" -> _dsd_start(rd, elem, parent)
      [] func = "_dsd_end" -> _dsd_end(rd, elem, parent)
      [] func = "_header" -> _header(rd, elem, parent)
      [] func = "_ds_start" -> _ds_start(rd, elem, parent)
      [] func = "_ds_end" -> _ds_end(rd, elem, parent)
      [] func = "_key" -> _key(rd, elem, parent)
      [] func = "_obs" -> _obs(rd, elem, parent)
      [] func = "_obs_ss" -> _obs_ss(rd, elem, parent)
      [] func = "_group_ss" -> _group_ss(rd, elem, parent)
      [] func = "_series_ss" -> _series_ss(rd, elem, parent)
      [] func = "_series" -> _series(rd, elem, parent)
      [] func = "_ar" -> _ar(rd, elem, parent)
      [] func = "_a" -> _a(rd, elem, parent)
      [] func = "_concept" -> _concept(rd, elem, parent)
      [] func = "_text" -> _text(rd, elem, parent)
      [] func = "_ms" -> _ms(rd, elem, parent)
      [] func = "_cr" -> _cr(rd, elem, parent)

(***************************************************************************)
(* Spec: Reader.read_message() over the events of a document.  The events  *)
(* are those etree.iterparse gives for a document built from the elements  *)
(* below: Start is the code before the loop, DStart and DEnd one turn of   *)
(* the loop each for a start and an end event (DEnd of the root goes on    *)
(* with the code after the loop, the stream being exhausted), Malformed    *)
(* the parser's own failure on a document that is not well-formed.         *)
(* open holds the elements that are open, input the events read, op the    *)
(* last turn of the loop, ret the value returned.                          *)
(***************************************************************************)
RootTags == {Tag("mes", "Structure"), Tag("str", "Codelists"), Tag("str", "Codelist"),
             Tag("str", "Unknown")}

\* The elements a document may have inside an element of that tag, whose parent has
\* the local name parentLn.
ChildTags(tag, parentLn) ==
    CASE tag = Tag("mes", "Structure") -> {Tag("mes", "Structures"), Tag("str", "Codelist")}
      [] tag = Tag("mes", "Structures") ->
            {Tag("str", "Codelist"), Tag("str", "Dataflow"), Tag("str", "ContentConstraint"),
             Tag("str", "Unknown")}
      [] tag = Tag("str", "Codelists") -> {Tag("str", "Codelist")}
      [] tag = Tag("str", "Codelist") -> {Tag("com", "Name")}
      [] tag = Tag("str", "ContentConstraint") -> {Tag("str", "ConstraintAttachment")}
      [] tag = Tag("str", "ConstraintAttachment") -> {Tag("str", "Dataflow")}
      [] tag = Tag("str", "Dataflow") ->
            IF parentLn = "ConstraintAttachment" THEN {Tag("", "Ref")} ELSE {}
      [] OTHER -> {}

\* The attributes an element of that tag may carry.
AttribsOf(tag) ==
    CASE tag \in {Tag("str", "Codelist"), Tag("str", "Dataflow"), Tag("", "Ref")} ->
            {[n \in {"id"} |-> "A"]}
      [] tag = Tag("str", "ContentConstraint") ->
            {[n \in {"id"} |-> "C"],
             [n \in {"id", "type"} |-> IF n = "id" THEN "C" ELSE "Actual"]}
      [] OTHER -> {NoAttrib}

\* The text of an element of that tag.
TextOf(tag) == IF tag = Tag("com", "Name") THEN <<"t">> ELSE <<>>

\* Reader._clean(): the stack without its empty buckets.
RECURSIVE _clean(_)
_clean(st) ==
    IF st = <<>> THEN <<>>
    ELSE (IF Head(st).vals = <<>> THEN <<>> ELSE <<Head(st)>>) \o _clean(Tail(st))

\* The number of values of the stack whose identity is not in ignore.
RECURSIVE CountNotIgnored(_, _)
CountNotIgnored(st, ig) ==
    IF st = <<>> THEN 0
    ELSE Cardinality({j \in 1..Len(Head(st).vals) : Head(st).vals[j] \notin ig})
         + CountNotIgnored(Tail(st), ig)

\* One turn of the loop of read_message (lines 205-222) for an event: exc is the
\* exception that leaves the loop ("" for none), mid the stack when the handler has
\* returned and the driver has not yet pushed, result the value of the handler.
Turn(rd, event, elem, parent) ==
    With([func \in {PARSE(elem.tag, event)} |->
    IF func = "KeyError"
      THEN [rd |-> rd, func |-> func, exc |-> "NotImplementedError", mid |-> rd.stack,
            result |-> None, cleared |-> FALSE]
    ELSE IF func = "None"
      THEN [rd |-> rd, func |-> func, exc |-> "", mid |-> rd.stack,
            result |-> None, cleared |-> FALSE]
    ELSE With([o \in {Call(func, rd, elem, parent)} |->
             IF o.exc # ""
               THEN [rd |-> o.rd, func |-> func, exc |-> o.exc, mid |-> o.rd.stack,
                     result |-> None, cleared |-> FALSE]
             ELSE [rd |-> Push1(o.rd, o.v), func |-> func, exc |-> "", mid |-> o.rd.stack,
                   result |-> o.v, cleared |-> event = "end"]])])

\* The last turn of the loop, as op records it.
OpOf(t, event, elem) ==
    [kind |-> "event", n |-> nev + 1, tag |-> elem.tag, event |-> event, func |-> t.func,
     exc |-> t.exc, mid |-> t.mid, result |-> t.result]

\* except Exception as exc: self._dump(); raise XMLParseError from exc
Wrapped(t) ==
    /\ heap' = t.rd.heap
    /\ stack' = _clean(t.rd.stack)
    /\ ignore' = t.rd.ignore
    /\ ss_missing_dsd' = t.rd.ss
    /\ pc' = "failed"
    /\ err' = [kind |-> "XMLParseError", cause |-> t.exc]
    /\ ret' = None

\* The code after the loop (lines 229-238), on the Reader's state rd.
AfterLoop(rd) ==
    LET uncollected == CountNotIgnored(rd.stack, rd.ignore) - 1
    IN /\ heap' = rd.heap
       /\ ignore' = rd.ignore
       /\ ss_missing_dsd' = rd.ss
       /\ IF uncollected > 0
            THEN /\ stack' = _clean(rd.stack)
                 /\ pc' = "failed"
                 /\ err' = [kind |-> "RuntimeError", cause |-> ""]
                 /\ ret' = None
            ELSE /\ stack' = rd.stack
                 /\ pc' = "returned"
                 /\ err' = NoErr
                 /\ ret' = Get(rd, ClsKey("Message"), NoStr, FALSE).v

Init ==
    /\ heap = <<>> /\ stack = <<>> /\ ignore = {} /\ ss_missing_dsd = FALSE
    /\ pc = "init" /\ op = NoOp /\ ret = None /\ err = NoErr
    /\ open = <<>> /\ nev = 0 /\ input = <<>>

\* Lines 196-202: the stack, the flag, ignore and push(dsd); the caller gives a
\* DataStructureDefinition or None.
Start(given) ==
    /\ pc = "init"
    /\ LET h == IF given THEN <<NewObj("DataStructureDefinition", "D")>> ELSE <<>>
           dsd == IF given THEN 1 ELSE None
           rd == Push1(Rd(h, <<>>, {dsd}, FALSE), dsd)
       IN /\ heap' = rd.heap /\ stack' = rd.stack /\ ignore' = rd.ignore
          /\ ss_missing_dsd' = rd.ss
          /\ op' = [kind |-> "start", n |-> 0, result |-> dsd]
    /\ pc' = "parsing"
    /\ UNCHANGED <<ret, err, open, nev, input>>

\* A start event; the document is one that ends within MaxEvents events.
DStart(tag, attrib) ==
    /\ pc = "parsing"
    /\ Len(open) < MaxDepth
    /\ nev + Len(open) + 2 <= MaxEvents
    /\ IF open = <<>> THEN tag \in RootTags
       ELSE tag \in ChildTags(open[Len(open)].tag,
                              IF Len(open) = 1 THEN NoStr ELSE open[Len(open) - 1].tag.ln)
    /\ attrib \in AttribsOf(tag)
    /\ \E elem \in {Elem(tag, attrib, TextOf(tag), <<>>)} :
       \E parent \in {IF open = <<>> THEN NoElem ELSE open[Len(open)]} :
       \E rd \in {CurRd} :
       \E t \in {Turn(rd, "start", elem, parent)} :
          /\ op' = OpOf(t, "start", elem)
          /\ IF t.exc # "" THEN Wrapped(t) /\ open' = open
             ELSE /\ heap' = t.rd.heap /\ stack' = t.rd.stack /\ ignore' = t.rd.ignore
                  /\ ss_missing_dsd' = t.rd.ss
                  /\ open' = Append(open, elem)
                  /\ UNCHANGED <<pc, err, ret>>
    /\ nev' = nev + 1
    /\ input' = Append(input, [tag |-> tag, event |-> "start"])

\* The end event of the innermost open element; after the end of the root the stream
\* is exhausted and the code after the loop runs.
DEnd ==
    /\ pc = "parsing"
    /\ open # <<>>
    /\ \E elem \in {open[Len(open)]} :
       \E rest \in {SubSeq(open, 1, Len(open) - 1)} :
       \E parent \in {IF rest = <<>> THEN NoElem ELSE rest[Len(rest)]} :
       \E rd \in {CurRd} :
       \E t \in {Turn(rd, "end", elem, parent)} :
       \E left \in {IF t.cleared THEN Elem(elem.tag, NoAttrib, <<>>, <<>>) ELSE elem} :
          /\ op' = OpOf(t, "end", elem)
          /\ IF t.exc # "" THEN Wrapped(t) /\ open' = open
             ELSE /\ open' = IF rest = <<>> THEN <<>>
                             ELSE [rest EXCEPT ![Len(rest)].children = Append(@, left)]
                  /\ IF rest = <<>> THEN AfterLoop(t.rd)
                     ELSE /\ heap' = t.rd.heap /\ stack' = t.rd.stack
                          /\ ignore' = t.rd.ignore /\ ss_missing_dsd' = t.rd.ss
                          /\ UNCHANGED <<pc, err, ret>>
    /\ nev' = nev + 1
    /\ input' = Append(input, [tag |-> open[Len(open)].tag, event |-> "end"])

\* The document is not well-formed from here on: iterparse raises XMLSyntaxError.
Malformed ==
    /\ pc = "parsing"
    /\ stack' = _clean(stack)
    /\ pc' = "failed"
    /\ err' = [kind |-> "XMLParseError", cause |-> "XMLSyntaxError"]
    /\ op' = [kind |-> "malformed", n |-> nev, result |-> None]
    /\ UNCHANGED <<heap, ignore, ss_missing_dsd, ret, open, nev, input>>

Next ==
    \/ \E given \in BOOLEAN : Start(given)
    \/ \E tag \in RootTags \cup UNION {ChildTags(g, p) : g \in
              {Tag("mes", "Structure"), Tag("mes", "Structures"), Tag("str", "Codelists"),
               Tag("str", "Codelist"), Tag("str", "ContentConstraint"),
               Tag("str", "ConstraintAttachment"), Tag("str", "Dataflow")},
              p \in {NoStr, "ConstraintAttachment"}} :
          \E attrib \in AttribsOf(tag) : DStart(tag, attrib)
    \/ DEnd
    \/ Malformed

Spec == Init /\ [][Next]_vars

\* The tags that have an entry in the dispatch table (SKIP, lines 72-84, and the
\* decorators of the handlers).
KnownTags ==
    {Tag("mes", "Structure"), Tag("mes", "Structures"), Tag("str", "Codelists"),
     Tag("str", "ConstraintAttachment"), Tag("", "Ref"), Tag("str", "Codelist"),
     Tag("str", "Dataflow"), Tag("str", "ContentConstraint"), Tag("com", "Name"),
     Tag("str", "Code"), Tag("str", "Parent"), Tag("str", "DataStructureComponents"),
     Tag("str", "DimensionList"), Tag("str", "DataStructure"), Tag("mes", "Header"),
     Tag("com", "Structure"), Tag("mes", "DataSet"), Tag("gen", "ObsKey"), Tag("gen", "Obs"),
     Tag("", "Obs"), Tag("", "Group"), Tag("", "Series"), Tag("gen", "ObsDimension"),
     Tag("str", "Constraints"), Tag("str", "DataProvider"), Tag("str", "CubeRegion"),
     Tag("com", "KeyValue"), Tag("com", "Attribute"), Tag("com", "Value"), Tag("gen", "ObsValue"), Tag("gen", "Value"),
     Tag("str", "Attribute"), Tag("str", "AttributeList"), Tag("str", "Group"),
     Tag("str", "MeasureList"), Tag("str", "Structure"), Tag("str", "Enumeration"),
     Tag("str", "DataStructures"), Tag("str", "OrganisationSchemes"),
     Tag("str", "CategorySchemes"), Tag("str", "Concepts"), Tag("str", "Dataflows"),
     Tag("str", "ProvisionAgreements"), Tag("mes", "Test"), Tag("", "URN"),
     Tag("com", "StructureUsage"), Tag("gen", "Series"), Tag("gen", "SeriesKey"),
     Tag("str", "PrimaryMeasure"), Tag("str", "AttachmentGroup"),
     Tag("str", "AttributeRelationship"), Tag("str", "None"), Tag("com", "Description"),
     Tag("com", "Annotation"), Tag("com", "Annotations"), Tag("str", "ConceptScheme"),
     Tag("str", "Concept")}
    \cup ComponentTags \cup DataMessageTags

\* C1: when read_message reaches the first (tag, event) pair without an entry in the
\* dispatch table it stops there: the pair is the last event read, no handler has run
\* for it, nothing is returned, and the failure is an XMLParseError whose cause is the
\* NotImplementedError of that tag and event.
C1_UnknownPairFatal ==
    \A i \in 1..Len(input) :
        input[i].tag \notin KnownTags
            => /\ i = Len(input)
               /\ pc = "failed"
               /\ err = [kind |-> "XMLParseError", cause |-> "NotImplementedError"]
               /\ ret = None
               /\ op.kind = "event" /\ op.n = i /\ op.func = "KeyError"
               /\ op.tag = input[i].tag /\ op.event = input[i].event
               /\ op.result = None

\* An unknown element has been met after handlers had built objects.
C1_Witness ==
    /\ pc = "failed"
    /\ err.cause = "NotImplementedError"
    /\ Len(input) >= 4
    /\ Len(heap) >= 2

\* C2: read_message returns only when the stack, after the last event, holds exactly
\* one value that is not ignored, and that value is the Message, which it returns.
C2_ReturnsOnlyTheMessage ==
    pc = "returned"
        => /\ CountNotIgnored(stack, ignore) = 1
           /\ ret # None
           /\ ret \in OnStack(stack) /\ ret \notin ignore
           /\ IsSubclass(heap[ret].cls, "Message")

\* C3: every failure of read_message is an XMLParseError chained to its cause.
C3_FailuresAreWrapped ==
    pc = "failed" => err.kind = "XMLParseError" /\ err.cause # ""

\* The objects an object refers to.
RECURSIVE Reachable(_, _, _)
Reachable(h, S, n) ==
    IF n = 0 THEN S
    ELSE Reachable(h, S \cup UNION {h[v].links : v \in S}, n - 1)

\* The Maintainables of a Message: those of its collections and those they reach
\* through resolved references.
Maintainables(h, msg) ==
    {v \in Reachable(h, {e.obj : e \in h[msg].coll}, Len(h)) :
        IsSubclass(h[v].cls, "MaintainableArtefact")}

\* C4: in the Message returned no two distinct Maintainables share (class, id,
\* version).
C4_NoDuplicateArtefacts ==
    (pc = "returned" /\ ret # None)
        => \A a, b \in Maintainables(heap, ret) :
              a # b => ~(/\ heap[a].cls = heap[b].cls
                         /\ heap[a].id = heap[b].id
                         /\ heap[a].version = heap[b].version)

\* The keys of the buckets, in order.
Keys(st) == [i \in 1..Len(st) |-> st[i].key]

\* post is pre with v put at the end of the bucket of that key, a new bucket coming
\* last, and nothing else changed.
PushedAt(pre, post, key, v) ==
    /\ Bucket(post, key) = Append(Bucket(pre, key), v)
    /\ Keys(post) = IF \E i \in 1..Len(pre) : pre[i].key = key THEN Keys(pre)
                    ELSE Append(Keys(pre), key)
    /\ \A i \in 1..Len(pre) : pre[i].key # key => post[i] = pre[i]

\* C10: push(value) puts value at the end of the bucket of value's class, push(element,
\* value) at the end of the bucket of the element's local name, push(None) changes
\* nothing; the other buckets and the order of the entries stay as they were; and the
\* driver pushes the value a handler returns, when it is not None, exactly once.
C10_PushFrame ==
    [][/\ (op'.kind = "start" /\ pc = "init")
            => IF op'.result = None THEN stack' = <<>>
               ELSE PushedAt(<<>>, stack', ClsKey(heap'[op'.result].cls), op'.result)
       /\ (op'.kind = "event" /\ nev' = nev + 1 /\ op'.exc = "" /\ pc' # "failed")
            => /\ IF op'.result = None THEN stack' = op'.mid
                  ELSE PushedAt(op'.mid, stack', ClsKey(heap'[op'.result].cls), op'.result)
               /\ op'.func = "_localization"
                    => PushedAt(stack, op'.mid, StrKey(op'.tag.ln), Len(heap'))]_vars

\* The driver has pushed a handler's result into a bucket that held a value already.
C10_Witness ==
    /\ op.kind = "event" /\ op.exc = "" /\ op.result # None
    /\ Len(Bucket(stack, ClsKey(heap[op.result].cls))) >= 2
    /\ Len(stack) >= 2

(***************************************************************************)
(* SpecStack: the operations of the working stack, called one after the    *)
(* other on the stack they leave.  op is the last call, ret what it        *)
(* returned.                                                               *)
(***************************************************************************)
MaxStackOps == 4

\* The objects the handlers push under their class.
StackArtefacts ==
    {[cls |-> "DataflowDefinition", id |-> "A"], [cls |-> "StructureUsage", id |-> "A"],
     [cls |-> "StructureUsage", id |-> "B"], [cls |-> "Codelist", id |-> "A"]}

StackKeys == {ClsKey("StructureUsage"), ClsKey("DataflowDefinition"), StrKey("Name")}

\* The id arguments of get(): None, the empty string, an id.
GetIds == {NoStr, "", "A"}

InitStack ==
    /\ heap = <<>> /\ stack = <<>> /\ ignore = {None} /\ ss_missing_dsd = FALSE
    /\ pc = "stack"
    /\ op = NoOp /\ ret = None
    /\ err = NoErr /\ open = <<>> /\ nev = 0 /\ input = NoInput

\* push(value): the key is the value's class.
KPush(a) ==
    /\ pc = "stack" /\ nev < MaxStackOps
    /\ Len(heap) < MaxHeap
    /\ \E r \in {Alloc(CurRd, NewObj(a.cls, a.id))} : SetRd(Push1(r, Len(r.heap)))
    /\ ret' = None
    /\ op' = [kind |-> "push", key |-> ClsKey(a.cls), id |-> NoStr]
    /\ nev' = nev + 1

\* push(elem, value): the key is the element's local name.
KPushElem(ln) ==
    /\ pc = "stack" /\ nev < MaxStackOps
    /\ Len(heap) < MaxHeap
    /\ \E r \in {Alloc(CurRd, [NewObj("tuple", NoStr) EXCEPT !.val = <<"en", <<"t">> >>])} :
          SetRd(Push2(r, StrKey(ln), Len(r.heap)))
    /\ ret' = None
    /\ op' = [kind |-> "push", key |-> StrKey(ln), id |-> NoStr]
    /\ nev' = nev + 1

\* pop_single(key)
KPopSingle(key) ==
    /\ pc = "stack" /\ nev < MaxStackOps
    /\ \E o \in {PopSingle(CurRd, key)} : SetRd(o.rd) /\ ret' = o.v
    /\ op' = [kind |-> "pop_single", key |-> key, id |-> NoStr]
    /\ nev' = nev + 1

\* pop_all(key)
KPopAll(key) ==
    /\ pc = "stack" /\ nev < MaxStackOps
    /\ \E o \in {PopAll(CurRd, key)} : SetRd(o.rd) /\ ret' = o.v
    /\ op' = [kind |-> "pop_all", key |-> key, id |-> NoStr]
    /\ nev' = nev + 1

\* get(key, id); the objects under a string key have no id, and get() is not called
\* with one for them.
KGet(key, id) ==
    /\ pc = "stack" /\ nev < MaxStackOps
    /\ key.k = "str" => id = NoStr
    /\ \E o \in {Get(CurRd, key, id, FALSE)} : o.exc = "" /\ ret' = o.v
    /\ op' = [kind |-> "get", key |-> key, id |-> id]
    /\ nev' = nev + 1
    /\ UNCHANGED <<heap, stack, ignore, ss_missing_dsd, pc, err, open, input>>

NextStack ==
    \/ \E a \in StackArtefacts : KPush(a)
    \/ KPushElem("Name")
    \/ \E key \in StackKeys : KPopSingle(key)
    \/ \E key \in StackKeys : KPopAll(key)
    \/ \E key \in StackKeys, id \in GetIds : KGet(key, id)

SpecStack == InitStack /\ [][NextStack]_vars

\* The keys a bucket may have in SpecStack.
AllStackKeys == StackKeys \cup {ClsKey(a.cls) : a \in StackArtefacts}

\* C11: pop_single(key) removes and returns the last value of the bucket of exactly that
\* key (values are in arrival order, so the one that came last); when the bucket is
\* empty or absent it returns None and the contents of every bucket stay as they were;
\* a bucket keyed by a subclass of a class key is never touched.
C11_PopSingle ==
    [][op'.kind = "pop_single" =>
         LET key == op'.key
             b == Bucket(stack, key)
         IN /\ IF b = <<>> THEN ret' = None /\ Bucket(stack', key) = <<>>
               ELSE ret' = b[Len(b)] /\ Bucket(stack', key) = SubSeq(b, 1, Len(b) - 1)
            /\ \A k \in AllStackKeys \ {key} : Bucket(stack', k) = Bucket(stack, k)
            /\ heap' = heap]_vars

\* pop_single(StructureUsage) has returned the later of two values, with a
\* DataflowDefinition on the stack.
C11_Witness ==
    /\ op.kind = "pop_single" /\ op.key = ClsKey("StructureUsage")
    /\ ret # None /\ Bucket(stack, op.key) # <<>> /\ ret > Bucket(stack, op.key)[1]
    /\ Bucket(stack, ClsKey("DataflowDefinition")) # <<>>

\* The values of a sequence of buckets, one bucket after the other.
RECURSIVE Concat(_)
Concat(bs) == IF bs = <<>> THEN <<>> ELSE Head(bs).vals \o Concat(Tail(bs))

\* The bucket of key k is one that pop_all(key) takes.
Taken(key, k) ==
    IF key.k = "str" THEN k = key ELSE k.k = "cls" /\ IsSubclass(k.n, key.n)

\* C12: pop_all(C) for a class C returns the values of the buckets keyed by a subclass of
\* C, bucket after bucket in the order the buckets were created and each bucket in
\* arrival order, and removes exactly those buckets; the buckets under a string and
\* under an unrelated class stay as they were; pop_all(name) removes exactly the bucket
\* of that name and returns its values.
C12_PopAll ==
    [][op'.kind = "pop_all" =>
         /\ ret' = Concat(SelectSeq(stack, LAMBDA b : Taken(op'.key, b.key)))
         /\ stack' = SelectSeq(stack, LAMBDA b : ~Taken(op'.key, b.key))
         /\ \A k \in AllStackKeys :
               Bucket(stack', k) = IF Taken(op'.key, k) THEN <<>> ELSE Bucket(stack, k)
         /\ heap' = heap]_vars

\* pop_all(StructureUsage) has returned the values of two buckets and left the bucket of
\* another class.
C12_Witness ==
    /\ op.kind = "pop_all" /\ op.key = ClsKey("StructureUsage")
    /\ Len(ret) = 2 /\ heap[ret[1]].cls # heap[ret[2]].cls
    /\ stack # <<>>
    /\ \A i \in 1..Len(stack) : stack[i].key.k = "cls" /\ stack[i].vals # <<>>

\* The first of the values whose id is `id`, None when there is none.
FirstOfId(h, vals, id) ==
    LET hits == {i \in 1..Len(vals) : h[vals[i]].id = id}
    IN IF hits = {} THEN None ELSE vals[CHOOSE i \in hits : \A j \in hits : i <= j]

\* C13: get() never changes the working stack; with an id it returns the first object of
\* the matching buckets whose id equals it, or None; without an id it returns the value
\* when the matching buckets hold exactly one, else None; for a class key the matching
\* buckets are those keyed by a subclass of it.
C13_Get ==
    [][op'.kind = "get" =>
         LET vals == Concat(SelectSeq(stack, LAMBDA b : Taken(op'.key, b.key)))
         IN /\ stack' = stack /\ heap' = heap
            /\ ret' = IF op'.id # NoStr THEN FirstOfId(heap, vals, op'.id)
                      ELSE IF Len(vals) = 1 THEN vals[1] ELSE None]_vars

(***************************************************************************)
(* SpecStash: stash() and unstash() among pushes, and then one call of a   *)
(* constructor on the stack they leave.  input is the history of the       *)
(* stashes not yet restored: for each, the contents the named buckets had  *)
(* before it, and whether one of them was pushed to since.                 *)
(***************************************************************************)
MaxStashOps == 5

\* The keys of stash(*keys).
StashKeys == {<<StrKey("Name")>>, <<StrKey("Name"), StrKey("Description")>>}

\* The keys of a list of keys.
KeySet(keys) == {keys[i] : i \in 1..Len(keys)}

InitStash ==
    /\ heap = <<>> /\ stack = <<>> /\ ignore = {None} /\ ss_missing_dsd = FALSE
    /\ pc = "stash"
    /\ op = NoOp /\ ret = None
    /\ err = NoErr /\ open = <<>> /\ nev = 0 /\ input = <<>>

\* push(elem, value) for a <com:Name> or <com:Description>.
TPushElem(ln) ==
    /\ pc = "stash" /\ nev < MaxStashOps
    /\ Len(heap) < MaxHeap
    /\ \E r \in {Alloc(CurRd, [NewObj("tuple", NoStr) EXCEPT !.val = <<"en", <<"t">> >>])} :
          /\ heap' = r.heap
          /\ stack' = Push2(r, StrKey(ln), Len(r.heap)).stack
    /\ input' = [i \in 1..Len(input) |->
                    IF StrKey(ln) \in input[i].keys THEN [input[i] EXCEPT !.touched = TRUE]
                    ELSE input[i]]
    /\ ret' = None
    /\ op' = [kind |-> "push", key |-> StrKey(ln)]
    /\ nev' = nev + 1
    /\ UNCHANGED <<ignore, ss_missing_dsd, pc, err, open>>

\* push(value) for an Annotation.
TPushAnnotation ==
    /\ pc = "stash" /\ nev < MaxStashOps
    /\ Len(heap) < MaxHeap
    /\ \E r \in {Alloc(CurRd, NewObj("Annotation", NoStr))} : SetRd(Push1(r, Len(r.heap)))
    /\ ret' = None
    /\ op' = [kind |-> "push", key |-> ClsKey("Annotation")]
    /\ nev' = nev + 1

\* stash(*keys)
TStash(keys) ==
    /\ pc = "stash" /\ nev < MaxStashOps
    /\ Len(heap) < MaxHeap
    /\ \E r \in {Stash(CurRd, keys)} : heap' = r.heap /\ stack' = r.stack
    /\ input' = Append(input, [keys |-> KeySet(keys),
                               before |-> [k \in KeySet(keys) |-> Bucket(stack, k)],
                               touched |-> FALSE])
    /\ ret' = None
    /\ op' = [kind |-> "stash", keys |-> KeySet(keys)]
    /\ nev' = nev + 1
    /\ UNCHANGED <<ignore, ss_missing_dsd, pc, err, open>>

\* unstash()
TUnstash ==
    /\ pc = "stash" /\ nev < MaxStashOps
    /\ \E r \in {Unstash(CurRd)} : heap' = r.heap /\ stack' = r.stack
    /\ input' = IF input = <<>> THEN <<>> ELSE SubSeq(input, 1, Len(input) - 1)
    /\ ret' = None
    /\ op' = [kind |-> "unstash", keys |-> {}]
    /\ nev' = nev + 1
    /\ UNCHANGED <<ignore, ss_missing_dsd, pc, err, open>>

\* The constructors of the Reader, by name.
Constructors == {"annotable", "identifiable", "nameable", "versionable", "maintainable"}

\* The elem argument: None, or an element that carries the attributes the
\* constructors read.
MakeElems ==
    {NoElem,
     Elem(Tag("str", "Codelist"),
          [n \in {"id", "version", "isExternalReference"} |->
              CASE n = "id" -> "E" [] n = "version" -> "2" [] OTHER -> "true"],
          <<>>, <<>>)}

\* The keyword arguments of the caller.
MakeKws ==
    {[n \in {} |-> NoStr],
     [n \in {"id"} |-> "K"],
     [n \in {"id", "version", "is_external_reference"} |->
         CASE n = "id" -> "K" [] n = "version" -> "1" [] OTHER -> "false"]}

\* getattr(reader, fn)(cls, elem, **kw)
MakeCall(fn, rd, cls, elem, kw) ==
    CASE fn = "annotable" -> annotable(rd, cls, elem, kw)
      [] fn = "identifiable" -> identifiable(rd, cls, elem, kw)
      [] fn = "nameable" -> nameable(rd, cls, elem, kw)
      [] fn = "versionable" -> versionable(rd, cls, elem, kw)
      [] fn = "maintainable" -> maintainable(rd, cls, elem, kw)

\* One call of a constructor; nothing is called after it.
TMake(fn, elem, kw) ==
    /\ pc = "stash" /\ nev < MaxStashOps
    /\ Len(heap) < MaxHeap
    /\ \E c \in {CurRd} :
       \E o \in {MakeCall(fn, c, "Codelist", elem, kw)} :
          /\ o.exc = ""
          /\ heap' = o.rd.heap /\ stack' = o.rd.stack
          /\ ret' = o.v
    /\ op' = [kind |-> "make", fn |-> fn, elem |-> elem, kw |-> kw]
    /\ pc' = "made"
    /\ nev' = nev + 1
    /\ UNCHANGED <<ignore, ss_missing_dsd, err, open, input>>

NextStash ==
    \/ \E ln \in {"Name", "Description"} : TPushElem(ln)
    \/ TPushAnnotation
    \/ \E keys \in StashKeys : TStash(keys)
    \/ TUnstash
    \/ \E fn \in Constructors, elem \in MakeElems, kw \in MakeKws : TMake(fn, elem, kw)

SpecStash == InitStash /\ [][NextStash]_vars

\* The keys a bucket may have in SpecStash, the stash's own aside.
StashedKeys == {StrKey("Name"), StrKey("Description"), ClsKey("Annotation")}

\* C14: stash(keys) takes the values of the named buckets off the stack; unstash() puts
\* back, after what the buckets hold by then, the values of the latest stash not yet
\* restored; when nothing was pushed to those keys in between, each named bucket is
\* exactly as it was before the stash; unstash() with nothing stashed changes nothing.
C14_StashRestores ==
    [][/\ op'.kind = "stash" =>
            \A k \in StashedKeys :
               Bucket(stack', k) = IF k \in op'.keys THEN <<>> ELSE Bucket(stack, k)
       /\ (op'.kind = "unstash" /\ input = <<>>) =>
            \A k \in StashedKeys : Bucket(stack', k) = Bucket(stack, k)
       /\ (op'.kind = "unstash" /\ input # <<>>) =>
            LET g == input[Len(input)]
            IN /\ \A k \in StashedKeys :
                     Bucket(stack', k) = IF k \in g.keys THEN Bucket(stack, k) \o g.before[k]
                                         ELSE Bucket(stack, k)
               /\ ~g.touched => \A k \in g.keys : Bucket(stack', k) = g.before[k]
               /\ Len(Bucket(stack', StrKey("_stash"))) = Len(input) - 1]_vars

\* unstash() has restored the later of two stashes, each of which took a Name.
C14_Witness ==
    /\ op.kind = "unstash" /\ Len(input) = 1
    /\ input[1].before[StrKey("Name")] # <<>>
    /\ Bucket(stack, StrKey("Name")) # <<>>
    /\ Bucket(stack, StrKey("Name")) # input[1].before[StrKey("Name")]

\* The value an object has for a keyword argument.
KwField(o, n) ==
    CASE n = "id" -> o.id
      [] n = "version" -> o.version
      [] n = "is_external_reference" -> IF o.ext THEN "true" ELSE "false"

\* C15: in annotable, identifiable, nameable, versionable and maintainable a keyword
\* argument of the caller is never replaced by the element's attribute of the same name,
\* and with elem None the call takes nothing off the working stack.
C15_KwargsFirst ==
    [][op'.kind = "make" =>
         /\ \A n \in DOMAIN op'.kw : KwField(heap'[ret'], n) = op'.kw[n]
         /\ op'.elem = NoElem => stack' = stack]_vars

\* maintainable() was called with an id and a version for an element that has other
\* ones, names being on the stack.
C15_Witness ==
    /\ op.kind = "make" /\ op.fn = "maintainable" /\ op.elem # NoElem
    /\ "version" \in DOMAIN op.kw /\ op.kw["version"] # op.elem.attrib["version"]
    /\ heap[ret].version = "1" /\ heap[ret].names # <<>>

(***************************************************************************)
(* SpecItems: read_message() over the events of a <str:Codelist> document  *)
(* with names, codes, nested codes and <str:Parent> references.  At a      *)
(* start event the parser may or may not have read the element's first     *)
(* child yet; input holds, for each open element, the local name of the    *)
(* first child the document has for it ("*" when the start event did not   *)
(* fix it, NoStr for none), the names that were on the stack at its start, *)
(* the items that its child elements have defined so far (made), and the   *)
(* items defined inside it with a <str:Parent> child (refs).               *)
(***************************************************************************)
MaxItemEvents == 12
MaxItemDepth == 5

\* The elements a document may have inside an element of that tag.
ItemChildTags(tag) ==
    CASE tag = Tag("str", "Codelist") -> {Tag("com", "Name"), Tag("str", "Code")}
      [] tag = Tag("str", "Code") -> {Tag("com", "Name"), Tag("str", "Code"), Tag("str", "Parent")}
      [] tag = Tag("str", "Parent") -> {Tag("", "Ref")}
      [] OTHER -> {}

\* The attributes an element of that tag may carry.
ItemAttribsOf(tag) ==
    CASE tag = Tag("str", "Codelist") -> {[n \in {"id"} |-> "CL"]}
      [] tag = Tag("str", "Code") -> {[n \in {"id"} |-> i] : i \in {"A", "B"}}
      [] tag = Tag("", "Ref") -> {[n \in {"id"} |-> "A"]}
      [] OTHER -> {NoAttrib}

\* What a start event may fix of the first child: nothing for an element that is not an
\* item; for an item, no child or the local name of the first child.
FirstChildOf(tag) ==
    IF tag = Tag("str", "Code") THEN {NoStr} \cup {t.ln : t \in ItemChildTags(tag)} ELSE {"*"}

InitItems ==
    /\ heap = <<>> /\ stack = <<>> /\ ignore = {None} /\ ss_missing_dsd = FALSE
    /\ pc = "items" /\ op = NoOp /\ ret = None /\ err = NoErr
    /\ open = <<>> /\ nev = 0 /\ input = <<>>

\* A start event: first is the first child the document has for the element, readable
\* whether the parser has read it when it reports the start.
IStart(tag, attrib, first, readable) ==
    /\ pc = "items"
    /\ Len(open) < MaxItemDepth
    /\ nev + Len(open) + 2 <= MaxItemEvents
    /\ IF open = <<>> THEN tag = Tag("str", "Codelist")
       ELSE /\ tag \in ItemChildTags(open[Len(open)].tag)
            /\ (open[Len(open)].children = <<>> /\ input[Len(input)].first # "*")
                   => tag.ln = input[Len(input)].first
            \* <com:Name> comes before the other children
            /\ tag = Tag("com", "Name") =>
                   \A i \in 1..Len(open[Len(open)].children) :
                       open[Len(open)].children[i].tag = Tag("com", "Name")
    /\ attrib \in ItemAttribsOf(tag)
    /\ first \in FirstChildOf(tag)
    /\ readable => first \notin {"*", NoStr}
    /\ \E elem \in {Elem(tag, attrib, TextOf(tag), <<>>)} :
       \E seen \in {IF readable
                      THEN [elem EXCEPT !.children =
                               <<Elem(CHOOSE t \in ItemChildTags(tag) : t.ln = first,
                                      NoAttrib, <<>>, <<>>)>>]
                      ELSE elem} :
       \E parent \in {IF open = <<>> THEN NoElem ELSE open[Len(open)]} :
       \E rd \in {CurRd} :
       \E t \in {Turn(rd, "start", seen, parent)} :
          /\ op' = OpOf(t, "start", elem)
          /\ IF t.exc # "" THEN Wrapped(t) /\ open' = open /\ input' = input
             ELSE /\ heap' = t.rd.heap /\ stack' = t.rd.stack /\ ignore' = t.rd.ignore
                  /\ ss_missing_dsd' = t.rd.ss
                  /\ open' = Append(open, elem)
                  /\ input' = Append(input, [first |-> first,
                                             pending |-> Bucket(stack, StrKey("Name")),
                                             made |-> <<>>, refs |-> {}])
                  /\ UNCHANGED <<pc, err, ret>>
    /\ nev' = nev + 1

\* The turn t of the loop was the end of an item element that is a definition: _item()
\* has returned the item.
IsItem(t) ==
    /\ t.func = "_item" /\ t.exc = "" /\ t.result # None
    /\ t.rd.heap[t.result].cls = "Code"

\* The element has a <str:Parent> child.
HasParent(elem) ==
    \E i \in 1..Len(elem.children) : elem.children[i].tag = Tag("str", "Parent")

\* The end event of the innermost open element; after the end of the root the code
\* after the loop runs.
IEnd ==
    /\ pc = "items"
    /\ open # <<>>
    /\ open[Len(open)].children = <<>> => input[Len(input)].first \in {"*", NoStr}
    /\ \E elem \in {open[Len(open)]} :
       \E rest \in {SubSeq(open, 1, Len(open) - 1)} :
       \E parent \in {IF rest = <<>> THEN NoElem ELSE rest[Len(rest)]} :
       \E rd \in {CurRd} :
       \E t \in {Turn(rd, "end", elem, parent)} :
       \E left \in {IF t.cleared THEN Elem(elem.tag, NoAttrib, <<>>, <<>>) ELSE elem} :
          /\ op' = OpOf(t, "end", elem)
          /\ IF t.exc # "" THEN Wrapped(t) /\ open' = open /\ input' = input
             ELSE /\ open' = IF rest = <<>> THEN <<>>
                             ELSE [rest EXCEPT ![Len(rest)].children = Append(@, left)]
                  /\ input' = IF rest = <<>> THEN <<>>
                              ELSE [SubSeq(input, 1, Len(input) - 1) EXCEPT
                                      ![Len(rest)].made =
                                          IF IsItem(t) THEN Append(@, t.result) ELSE @,
                                      ![Len(rest)].refs =
                                          @ \cup input[Len(input)].refs
                                            \cup (IF IsItem(t) /\ HasParent(elem)
                                                    THEN {t.result} ELSE {})]
                  /\ IF rest = <<>> THEN AfterLoop(t.rd)
                     ELSE /\ heap' = t.rd.heap /\ stack' = t.rd.stack
                          /\ ignore' = t.rd.ignore /\ ss_missing_dsd' = t.rd.ss
                          /\ UNCHANGED <<pc, err, ret>>
    /\ nev' = nev + 1

NextItems ==
    \/ \E tag \in {Tag("str", "Codelist"), Tag("com", "Name"), Tag("str", "Code"),
                   Tag("str", "Parent"), Tag("", "Ref")} :
          \E attrib \in ItemAttribsOf(tag), first \in FirstChildOf(tag), readable \in BOOLEAN :
              IStart(tag, attrib, first, readable)
    \/ IEnd

SpecItems == InitItems /\ [][NextItems]_vars

\* The values of a sequence.
Range(seq) == {seq[i] : i \in 1..Len(seq)}

\* The step is the end event of an item element that is a definition: _item() has
\* returned the item.
ItemEnd ==
    /\ nev' = nev + 1 /\ op'.kind = "event" /\ op'.func = "_item" /\ op'.exc = ""
    /\ op'.result # None /\ heap'[op'.result].cls = "Code"

\* C16: for every item element that is a definition, with or without child elements and
\* whether or not the parser had read them at its start event, the names that were on
\* the stack when the item started are not given to the item and are in the "Name"
\* bucket after the item's end event.
C16_NamesProtected ==
    [][ItemEnd =>
         \A v \in Range(input[Len(input)].pending) :
            /\ v \notin Range(heap'[op'.result].names)
            /\ v \in Range(Bucket(stack', StrKey("Name")))]_vars

\* The last event was the end of a scheme element and _itemscheme() has returned the
\* scheme.
SchemeBuilt ==
    /\ op.kind = "event" /\ op.func = "_itemscheme" /\ op.exc = "" /\ op.result # None

\* The items above v: its parent, the parent's parent, ..., n steps up.
RECURSIVE Ancestors(_, _, _)
Ancestors(h, v, n) ==
    IF n = 0 \/ h[v].parent = None THEN {}
    ELSE {h[v].parent} \cup Ancestors(h, h[v].parent, n - 1)

\* The items that have v in their list of children.
ParentsOf(h, v) ==
    {p \in 1..Len(h) : IsSubclass(h[p].cls, "Item") /\ v \in Range(h[p].items)}

\* C17: in every ItemScheme produced each item's parent is None or an item of the same
\* scheme, each item is in the list of children of at most one item, and no item is
\* above itself.
C17_ItemForest ==
    SchemeBuilt =>
        LET items == Range(heap[op.result].items)
        IN \A v \in items :
              /\ heap[v].parent = None \/ heap[v].parent \in items
              /\ Cardinality(ParentsOf(heap, v)) <= 1
              /\ v \notin Ancestors(heap, v, Len(heap))

\* The first place of v in a sequence that has it.
Pos(seq, v) == CHOOSE i \in 1..Len(seq) : seq[i] = v /\ \A j \in 1..(i - 1) : seq[j] # v

MaxDsdEvents == 12

\* The elements a document may have inside an element of that tag.
DsdChildTags(tag) ==
    CASE tag = Tag("str", "DataStructure") -> {Tag("str", "DataStructureComponents")}
      [] tag = Tag("str", "DataStructureComponents") -> {Tag("str", "DimensionList")}
      [] tag = Tag("str", "DimensionList") -> ComponentTags
      [] OTHER -> {}

\* The positions a component may be given.
Positions == {"1", "2"}

\* The attributes an element of that tag may carry.
DsdAttribsOf(tag) ==
    CASE tag = Tag("str", "DataStructure") -> {[n \in {"id"} |-> "D"]}
      [] tag = Tag("str", "DimensionList") ->
            {NoAttrib, [n \in {"id"} |-> "DimensionDescriptor"]}
      [] tag \in ComponentTags ->
            LET ids == CASE tag.ln = "Dimension" -> {"A", "B"}
                         [] tag.ln = "MeasureDimension" -> {"M"}
                         [] OTHER -> {"T"}
            IN {[n \in {"id"} |-> i] : i \in ids}
               \cup {[n \in {"id", "position"} |-> IF n = "id" THEN i ELSE p] :
                       i \in ids, p \in Positions}
      [] OTHER -> {NoAttrib}

InitDsd ==
    /\ heap = <<>> /\ stack = <<>> /\ ignore = {None} /\ ss_missing_dsd = FALSE
    /\ pc = "dsd" /\ op = NoOp /\ ret = None /\ err = NoErr
    /\ open = <<>> /\ nev = 0 /\ input = <<>>

\* A start event.
DsdStart(tag, attrib) ==
    /\ pc = "dsd"
    /\ nev + Len(open) + 2 <= MaxDsdEvents
    /\ IF open = <<>> THEN tag = Tag("str", "DataStructure")
       ELSE tag \in DsdChildTags(open[Len(open)].tag)
    /\ attrib \in DsdAttribsOf(tag)
    /\ \E elem \in {Elem(tag, attrib, <<>>, <<>>)} :
       \E parent \in {IF open = <<>> THEN NoElem ELSE open[Len(open)]} :
       \E rd \in {CurRd} :
       \E t \in {Turn(rd, "start", elem, parent)} :
          /\ op' = OpOf(t, "start", elem)
          /\ IF t.exc # "" THEN Wrapped(t) /\ open' = open /\ input' = input
             ELSE /\ heap' = t.rd.heap /\ stack' = t.rd.stack /\ ignore' = t.rd.ignore
                  /\ ss_missing_dsd' = t.rd.ss
                  /\ open' = Append(open, elem)
                  /\ input' = Append(input, <<>>)
                  /\ UNCHANGED <<pc, err, ret>>
    /\ nev' = nev + 1

\* The end event of the innermost open element; after the end of the root the code
\* after the loop runs.
DsdEnd ==
    /\ pc = "dsd"
    /\ open # <<>>
    /\ \E elem \in {open[Len(open)]} :
       \E rest \in {SubSeq(open, 1, Len(open) - 1)} :
       \E parent \in {IF rest = <<>> THEN NoElem ELSE rest[Len(rest)]} :
       \E rd \in {CurRd} :
       \E t \in {Turn(rd, "end", elem, parent)} :
       \E left \in {IF t.cleared THEN Elem(elem.tag, NoAttrib, <<>>, <<>>) ELSE elem} :
       \E made \in {IF elem.tag \in ComponentTags /\ t.result # None
                      THEN <<[obj |-> t.result, position |-> AttrGet(elem.attrib, "position")]>>
                      ELSE <<>>} :
          /\ op' = OpOf(t, "end", elem)
          /\ IF t.exc # "" THEN Wrapped(t) /\ open' = open /\ input' = input
             ELSE /\ open' = IF rest = <<>> THEN <<>>
                             ELSE [rest EXCEPT ![Len(rest)].children = Append(@, left)]
                  /\ input' = IF rest = <<>> THEN <<>>
                              ELSE [SubSeq(input, 1, Len(rest)) EXCEPT ![Len(rest)] = @ \o made]
                  /\ IF rest = <<>> THEN AfterLoop(t.rd)
                     ELSE /\ heap' = t.rd.heap /\ stack' = t.rd.stack
                          /\ ignore' = t.rd.ignore /\ ss_missing_dsd' = t.rd.ss
                          /\ UNCHANGED <<pc, err, ret>>
    /\ nev' = nev + 1

NextDsd ==
    \/ \E tag \in {Tag("str", "DataStructure"), Tag("str", "DataStructureComponents"),
                   Tag("str", "DimensionList")} \cup ComponentTags :
          \E attrib \in DsdAttribsOf(tag) : DsdStart(tag, attrib)
    \/ DsdEnd

SpecDsd == InitDsd /\ [][NextDsd]_vars

\* The step is the end event of a dimension list that is a definition: _cl() has built
\* the descriptor and given it to the DSD.
DimensionListEnd ==
    /\ nev' = nev + 1 /\ op'.kind = "event" /\ op'.func = "_cl" /\ op'.exc = ""
    /\ op'.tag = Tag("str", "DimensionList")

\* The DSD that is being read.
TheDsd(st) == Bucket(st, ClsKey("DataStructureDefinition"))[1]

\* C19: at the end of every dimension list of a DSD the dimensions of the DSD's
\* DimensionDescriptor are the dimensions the list declares, in the order it declares
\* them; their order values are strictly increasing; each order value is the position
\* attribute of the dimension when it has one and the dimension's place in the list,
\* counted from 1, when it has none; and assign_order() was applied to the descriptor
\* exactly once.
C19_DimensionOrder ==
    [][DimensionListEnd =>
         LET dd == heap'[TheDsd(stack')].dimensions
             dims == heap'[dd].components
             declared == input[Len(input)]
         IN /\ dd # None
            /\ dims = [i \in 1..Len(declared) |-> declared[i].obj]
            /\ \A i \in 1..(Len(dims) - 1) : heap'[dims[i]].order < heap'[dims[i + 1]].order
            /\ \A i \in 1..Len(declared) :
                  heap'[declared[i].obj].order =
                      IF declared[i].position = NoStr THEN i
                      ELSE IntOf(declared[i].position).v
            /\ heap'[dd].assigned = 1]_vars

(***************************************************************************)
(* SpecData: read_message() over the events of a data message, generic or *)
(* structure-specific, with or without a DSD given by the caller: a header *)
(* with a <mes:Structure> that refers to the DSD, and data sets of         *)
(* observations.  input holds the ids the key of each observation read     *)
(* was asked to have, entries [obs, ids].                                  *)
(***************************************************************************)
MaxDataEvents == 20

\* The DSD a caller may give: id "D", the dimension "A", the attribute "X", the group
\* dimensions "G".
GivenDsd ==
    << [NewObj("DataStructureDefinition", "D") EXCEPT !.dimensions = 2, !.attributes = 4,
                                                      !.links = {6}],
       [NewObj("DimensionDescriptor", "DimensionDescriptor") EXCEPT !.components = <<3>>,
                                                                    !.assigned = 1],
       [NewObj("Dimension", "A") EXCEPT !.order = 1],
       [NewObj("AttributeDescriptor", "AttributeDescriptor") EXCEPT !.components = <<5>>],
       NewObj("DataAttribute", "X"),
       NewObj("GroupDimensionDescriptor", "G") >>

\* The root elements of the documents.
DataRoots == {Tag("mes", "GenericData"), Tag("mes", "StructureSpecificData")}

\* The elements a document may have inside an element of that tag, root being the tag
\* of the root.
DataChildTags(tag, root) ==
    CASE tag \in DataRoots -> {Tag("mes", "Header"), Tag("mes", "DataSet")}
      [] tag = Tag("mes", "Header") -> {Tag("mes", "Structure")}
      [] tag = Tag("mes", "Structure") -> {Tag("com", "Structure")}
      [] tag = Tag("com", "Structure") -> {Tag("", "Ref")}
      [] tag = Tag("mes", "DataSet") ->
            IF root = Tag("mes", "GenericData") THEN {Tag("gen", "Obs"), Tag("gen", "Series")}
            ELSE {Tag("", "Obs"), Tag("", "Series"), Tag("", "Group")}
      [] tag = Tag("", "Series") -> {Tag("", "Obs")}
      [] tag = Tag("gen", "Series") -> {Tag("gen", "SeriesKey"), Tag("gen", "Obs")}
      [] tag = Tag("gen", "Obs") -> {Tag("gen", "ObsKey"), Tag("gen", "ObsDimension")}
      [] tag \in {Tag("gen", "ObsKey"), Tag("gen", "SeriesKey")} -> {Tag("gen", "Value")}
      [] OTHER -> {}

\* The number of child elements an element of that tag may have.
DataMaxChildren(tag) ==
    CASE tag \in {Tag("mes", "Structure"), Tag("com", "Structure"),
                  Tag("gen", "Obs"), Tag("", "Series")} -> 1
      [] OTHER -> 2

\* The attributes an element of that tag may carry.
DataAttribsOf(tag) ==
    CASE tag = Tag("mes", "Structure") ->
            {[n \in {"structureID"} |-> "S"]}
            \cup {[n \in {"structureID", "dimensionAtObservation"} |->
                     IF n = "structureID" THEN "S" ELSE d] : d \in {"AllDimensions", "A", "T"}}
      [] tag = Tag("", "Ref") ->
            {[n \in {"id", "class", "package"} |->
                 CASE n = "id" -> i [] n = "class" -> "DataStructure" [] OTHER -> "pkg"] :
               i \in {"D", "E"}}
      [] tag = Tag("mes", "DataSet") -> {NoAttrib, [n \in {"structureRef"} |-> "S"]}
      [] tag = Tag("gen", "Value") ->
            {[n \in {"id", "value"} |-> IF n = "id" THEN i ELSE "1"] : i \in {"A", "B"}}
      [] tag = Tag("gen", "ObsDimension") -> {[n \in {"value"} |-> "1"]}
      [] tag = Tag("", "Obs") ->
            {[n \in names |-> "1"] : names \in {{"A"}, {"A", "B"}, {"A", "X"},
                                                 {"A", "OBS_VALUE"}}}
      [] tag = Tag("", "Series") -> {[n \in names |-> "1"] : names \in {{"A"}, {"B"}}}
      [] tag = Tag("", "Group") ->
            {[n \in {"A"} |-> "1"]}
            \cup {[n \in {"A", "xsi:type"} |-> IF n = "A" THEN "1" ELSE t] :
                    t \in {"ns:G", "ns:H"}}
      [] OTHER -> {NoAttrib}

InitData ==
    /\ heap = <<>> /\ stack = <<>> /\ ignore = {} /\ ss_missing_dsd = FALSE
    /\ pc = "init_data" /\ op = NoOp /\ ret = None /\ err = NoErr
    /\ open = <<>> /\ nev = 0 /\ input = <<>>

\* Lines 196-202: the stack, the flag, ignore and push(dsd); the caller gives GivenDsd
\* or None.
DataBegin(given) ==
    /\ pc = "init_data"
    /\ \E h \in {IF given THEN GivenDsd ELSE <<>>} :
       \E dsd \in {IF given THEN 1 ELSE None} :
       \E rd \in {Push1(Rd(h, <<>>, {dsd}, FALSE), dsd)} :
          /\ heap' = rd.heap /\ stack' = rd.stack /\ ignore' = rd.ignore
          /\ ss_missing_dsd' = rd.ss
          /\ op' = [kind |-> "start", n |-> 0, result |-> dsd]
    /\ pc' = "data"
    /\ UNCHANGED <<ret, err, open, nev, input>>

\* The innermost open element as a handler sees its parent: with the tag of the
\* element above it.
Innermost(elems) ==
    IF elems = <<>> THEN NoElem
    ELSE [tag |-> elems[Len(elems)].tag, attrib |-> elems[Len(elems)].attrib,
          text |-> elems[Len(elems)].text, children |-> elems[Len(elems)].children,
          up |-> IF Len(elems) = 1 THEN Tag("", "None") ELSE elems[Len(elems) - 1].tag]

\* A start event.
DataStart(tag, attrib) ==
    /\ pc = "data"
    /\ nev + Len(open) + 2 <= MaxDataEvents
    /\ IF open = <<>> THEN tag \in DataRoots
       ELSE /\ tag \in DataChildTags(open[Len(open)].tag, open[1].tag)
            /\ Len(open[Len(open)].children) < DataMaxChildren(open[Len(open)].tag)
            \* <mes:Header> is the first child of the message
            /\ tag = Tag("mes", "Header") => open[Len(open)].children = <<>>
            \* <gen:SeriesKey> is the first child of the series, and the only one
            /\ (tag = Tag("gen", "SeriesKey")) = (open[Len(open)].tag = Tag("gen", "Series")
                                                  /\ open[Len(open)].children = <<>>)
    /\ attrib \in DataAttribsOf(tag)
    /\ \E elem \in {Elem(tag, attrib, <<>>, <<>>)} :
       \E parent \in {Innermost(open)} :
       \E rd \in {CurRd} :
       \E t \in {Turn(rd, "start", elem, parent)} :
          /\ op' = OpOf(t, "start", elem)
          /\ IF t.exc # "" THEN Wrapped(t) /\ open' = open
             ELSE /\ heap' = t.rd.heap /\ stack' = t.rd.stack /\ ignore' = t.rd.ignore
                  /\ ss_missing_dsd' = t.rd.ss
                  /\ open' = Append(open, elem)
                  /\ UNCHANGED <<pc, err, ret>>
    /\ nev' = nev + 1
    /\ UNCHANGED input

\* The last value of a list, None for an empty one.
Last(vals) == IF vals = <<>> THEN None ELSE vals[Len(vals)]

\* The series key of the end of a series element: before is the Reader's state
\* before the handler, after the state it left.  _series() takes the SeriesKey last
\* pushed, _series_ss() makes one.
SeriesKeyOf(before, after, elem) ==
    IF elem.tag.ns = "gen" THEN Last(Bucket(before.stack, ClsKey("SeriesKey")))
    ELSE Last(SelectSeq([i \in 1..Len(after.heap) |-> i],
                        LAMBDA v : v > Len(before.heap) /\ after.heap[v].cls = "SeriesKey"))

\* The ids the key of the observation of an <Obs> element is asked to have: those of
\* the <gen:Value> children of its <gen:ObsKey>, the dimension at observation for a
\* <gen:ObsDimension>, the attributes of a structure-specific <Obs> other than
\* OBS_VALUE.
AskedIds(elem, h, msg) ==
    IF elem.tag = Tag("", "Obs") THEN Minus(AttribNames(elem.attrib), "OBS_VALUE")
    ELSE IF elem.children = <<>> THEN <<>>
    ELSE IF elem.children[1].tag = Tag("gen", "ObsDimension")
      THEN <<h[h[msg].observation_dimension].id>>
    ELSE input[Len(input)].ids

\* The end event of the innermost open element; after the end of the root the code
\* after the loop runs.
DataEnd ==
    /\ pc = "data"
    /\ open # <<>>
    /\ \E elem \in {open[Len(open)]} :
       \E rest \in {SubSeq(open, 1, Len(open) - 1)} :
       \E parent \in {Innermost(rest)} :
       \E rd \in {CurRd} :
       \E t \in {Turn(rd, "end", elem, parent)} :
       \E left \in {IF t.cleared THEN Elem(elem.tag, NoAttrib, <<>>, <<>>) ELSE elem} :
          /\ op' = OpOf(t, "end", elem)
          /\ IF t.exc # "" THEN Wrapped(t) /\ open' = open /\ input' = input
             ELSE /\ open' = IF rest = <<>> THEN <<>>
                             ELSE [rest EXCEPT ![Len(rest)].children = Append(@, left)]
                  /\ input' =
                        CASE elem.tag = Tag("gen", "ObsKey") ->
                               Append(input, [obs |-> None,
                                              ids |-> DictKeys(ChildIds(elem.children), {}),
                                              ds |-> None, series |-> FALSE, key |-> None])
                          [] elem.tag \in {Tag("gen", "Obs"), Tag("", "Obs")} ->
                               Append(input,
                                      [obs |-> t.result,
                                       ids |-> AskedIds(elem, heap,
                                                  Get(rd, ClsKey("Message"), NoStr, FALSE).v),
                                       ds |-> Last(Bucket(rd.stack, ClsKey("DataSet"))),
                                       series |-> parent.tag.ln = "Series", key |-> None])
                          [] elem.tag.ln = "Series" ->
                               [i \in 1..Len(input) |->
                                   IF input[i].series /\ input[i].key = None
                                     THEN [input[i] EXCEPT !.key = SeriesKeyOf(rd, t.rd, elem)]
                                     ELSE input[i]]
                          [] OTHER -> input
                  /\ IF rest = <<>> THEN AfterLoop(t.rd)
                     ELSE /\ heap' = t.rd.heap /\ stack' = t.rd.stack
                          /\ ignore' = t.rd.ignore /\ ss_missing_dsd' = t.rd.ss
                          /\ UNCHANGED <<pc, err, ret>>
    /\ nev' = nev + 1

NextData ==
    \/ \E given \in BOOLEAN : DataBegin(given)
    \/ \E tag \in DataRoots \cup UNION {DataChildTags(g, r) : g \in KnownTags, r \in DataRoots} :
          \E attrib \in DataAttribsOf(tag) : DataStart(tag, attrib)
    \/ DataEnd

SpecData == InitData /\ [][NextData]_vars

\* The message was returned.
Returned == pc = "returned" /\ ret # None

\* C20: in the message returned every id of the key of every observation of every data
\* set names a dimension of the DSD the data set is structured by, and every id the
\* key of an observation was asked to have is in the key (and so, by the first part, a
\* dimension of the DSD, which had it or was extended with it) unless it names an
\* attribute of the DSD; a document with any other id was refused.
C20_KeysNameDimensions ==
    Returned =>
        /\ \A d \in Range(heap[ret].data) : \A o \in Range(heap[d].obs) :
              heap[o].dimension # None =>
                 /\ heap[d].structured_by # None
                 /\ Range(heap[heap[o].dimension].keys) \subseteq
                       ComponentIds(heap, heap[heap[d].structured_by].dimensions)
        /\ \A i \in 1..Len(input) :
              input[i].obs # None =>
                 \A n \in 1..Len(input[i].ids) :
                    \/ input[i].ids[n] \in Range(heap[heap[input[i].obs].dimension].keys)
                    \/ \E d \in Range(heap[ret].data) :
                          /\ heap[d].structured_by # None
                          /\ input[i].ids[n] \in
                                ComponentIds(heap, heap[heap[d].structured_by].attributes)

\* The caller gave read_message() the DSD GivenDsd: it is the first object of the heap
\* and in ignore.
Supplied == 1 \in ignore /\ Len(heap) >= Len(GivenDsd) /\ heap[1].cls = "DataStructureDefinition"

\* The step belongs to the parse of a structure-specific message: the root element is
\* open before or after it.
StructureSpecificStep ==
    \/ open # <<>> /\ open[1].tag = Tag("mes", "StructureSpecificData")
    \/ open' # <<>> /\ open'[1].tag = Tag("mes", "StructureSpecificData")

\* C21: when the caller gives a DSD and the message is structure-specific, at every
\* event of the parse _ss_missing_dsd is false before and after the event, so that the
\* structure-specific Obs, Series and Group handlers pass extend=false to make_key, and
\* the supplied DSD, its component lists and their components are after the event what
\* the caller gave.
C21_SuppliedDsdUnchanged ==
    [][(Supplied /\ StructureSpecificStep) =>
         /\ ~ss_missing_dsd /\ ~ss_missing_dsd'
         /\ SubSeq(heap', 1, Len(GivenDsd)) = GivenDsd]_vars

\* The caller gave read_message() no DSD: ignore has id(None).
NotSupplied == None \in ignore

\* The DataSet objects of a heap.
DataSets(h) == {d \in 1..Len(h) : h[d].cls = "DataSet"}

\* C22: when a structure-specific message is parsed and the caller gave no DSD,
\* _ss_missing_dsd is true after the start event of the message and after every later
\* event to the end of the parse; the structure-specific Obs, Series and Group handlers
\* find it true, so they build their keys with extend=true; the DSD _obs_ss takes from
\* the stack is in ignore, and so is the DSD of every data set that has one.
C22_MissingDsdIgnored ==
    [][(NotSupplied /\ StructureSpecificStep) =>
         /\ ss_missing_dsd'
         /\ (op'.kind = "event" /\ op'.func \in {"_obs_ss", "_series_ss", "_group_ss"})
               => ss_missing_dsd
         /\ (op'.kind = "event" /\ op'.func = "_obs_ss" /\ op'.exc = "")
               => Get(CurRd, ClsKey("DataStructureDefinition"), NoStr, FALSE).v \in ignore'
         /\ \A d \in DataSets(heap') :
               heap'[d].structured_by # None => heap'[d].structured_by \in ignore']_vars

\* A structure-specific message is returned to a caller who gave no DSD: its data set
\* has a DSD, which has grown by the dimensions A and B of the series and observation
\* read and is in ignore.
C22_Witness ==
    /\ Returned /\ NotSupplied /\ ss_missing_dsd
    /\ \E d \in Range(heap[ret].data) :
          /\ heap[d].structured_by \in ignore \ {None}
          /\ ComponentIds(heap, heap[heap[d].structured_by].dimensions) = {"A", "B"}
          /\ \E o \in Range(heap[d].obs) : \E k \in heap[o].links : heap[k].cls = "SeriesKey"

(***************************************************************************)
(* SpecCube: read_message() over the events of the <str:Constraints> of a  *)
(* structure message, from the state it has when the element is opened     *)
(* after the data structure D (GivenDsd) and the dataflow F of D were      *)
(* read: a content constraint with its attachment and cube regions of      *)
(* <com:KeyValue> and <com:Attribute> member selections.  input holds, for *)
(* the cube region that is open, the selections that have ended:           *)
(* [ln, id, ms] with the local name, the id and the MemberSelection made   *)
(* (None for none).                                                        *)
(***************************************************************************)
MaxCubeEvents == 21

\* The elements a document may have inside an element of that tag.
CubeChildTags(tag) ==
    CASE tag = Tag("str", "Constraints") -> {Tag("str", "ContentConstraint")}
      [] tag = Tag("str", "ContentConstraint") ->
            {Tag("str", "ConstraintAttachment"), Tag("str", "CubeRegion")}
      [] tag = Tag("str", "ConstraintAttachment") ->
            {Tag("str", "Dataflow"), Tag("str", "DataProvider")}
      [] tag \in {Tag("str", "Dataflow"), Tag("str", "DataProvider")} -> {Tag("", "Ref")}
      [] tag = Tag("str", "CubeRegion") -> {Tag("com", "KeyValue"), Tag("com", "Attribute")}
      [] tag \in {Tag("com", "KeyValue"), Tag("com", "Attribute")} -> {Tag("com", "Value")}
      [] OTHER -> {}

\* The number of child elements an element of that tag may have.
CubeMaxChildren(tag) ==
    CASE tag \in {Tag("str", "Constraints"), Tag("str", "Dataflow"), Tag("str", "DataProvider"),
                  Tag("com", "KeyValue"), Tag("com", "Attribute")} -> 1
      [] tag = Tag("str", "ConstraintAttachment") -> 2
      [] OTHER -> 3

\* The attributes an element of that tag may carry inside an element of tag up.
CubeAttribsOf(tag, up) ==
    CASE tag = Tag("str", "ContentConstraint") ->
            {[n \in {"id", "type"} |-> IF n = "id" THEN "CC" ELSE "Allowed"]}
      [] tag = Tag("", "Ref") /\ up = Tag("str", "Dataflow") ->
            {[n \in {"id", "class", "package"} |->
                 CASE n = "id" -> i [] n = "class" -> "Dataflow" [] OTHER -> "pkg"] :
               i \in {"F", "Z"}}
      [] tag = Tag("", "Ref") ->
            {[n \in {"id", "class", "package", "maintainableParentID"} |->
                 CASE n = "id" -> "P" [] n = "class" -> "DataProvider"
                   [] n = "package" -> "pkg" [] OTHER -> "S"]}
      [] tag = Tag("str", "CubeRegion") -> {[n \in {"include"} |-> "true"]}
      [] tag = Tag("com", "KeyValue") -> {[n \in {"id"} |-> i] : i \in {"A", "Z"}}
      [] tag = Tag("com", "Attribute") -> {[n \in {"id"} |-> i] : i \in {"X", "A"}}
      [] OTHER -> {NoAttrib}

\* The text of an element of that tag.
CubeTextOf(tag) == IF tag = Tag("com", "Value") THEN <<"v">> ELSE <<>>

\* The state when <str:Constraints> is opened: the message, D and F are on the stack,
\* <mes:Structure> and <mes:Structures> are open.
InitCube ==
    /\ heap = GivenDsd \o << NewObj("StructureMessage", NoStr),
                             [NewObj("DataflowDefinition", "F") EXCEPT !.links = {1}] >>
    /\ stack = << [key |-> ClsKey("StructureMessage"), vals |-> <<Len(GivenDsd) + 1>>],
                  [key |-> ClsKey("DataStructureDefinition"), vals |-> <<1>>],
                  [key |-> ClsKey("DataflowDefinition"), vals |-> <<Len(GivenDsd) + 2>>] >>
    /\ ignore = {None} /\ ss_missing_dsd = FALSE
    /\ pc = "cube" /\ op = NoOp /\ ret = None /\ err = NoErr
    /\ open = << Elem(Tag("mes", "Structure"), NoAttrib, <<>>, <<>>),
                 Elem(Tag("mes", "Structures"), NoAttrib, <<>>, <<>>),
                 Elem(Tag("str", "Constraints"), NoAttrib, <<>>, <<>>) >>
    /\ nev = 0 /\ input = <<>>

\* A start event.
CubeStart(tag, attrib) ==
    /\ pc = "cube"
    /\ nev + Len(open) + 2 <= MaxCubeEvents
    /\ open # <<>>
    /\ tag \in CubeChildTags(open[Len(open)].tag)
    /\ Len(open[Len(open)].children) < CubeMaxChildren(open[Len(open)].tag)
    \* <str:ConstraintAttachment> is the first child of the constraint
    /\ tag = Tag("str", "ConstraintAttachment") => open[Len(open)].children = <<>>
    /\ attrib \in CubeAttribsOf(tag, open[Len(open)].tag)
    /\ \E elem \in {Elem(tag, attrib, CubeTextOf(tag), <<>>)} :
       \E rd \in {CurRd} :
       \E t \in {Turn(rd, "start", elem, open[Len(open)])} :
          /\ op' = OpOf(t, "start", elem)
          /\ IF t.exc # "" THEN Wrapped(t) /\ open' = open /\ input' = input
             ELSE /\ heap' = t.rd.heap /\ stack' = t.rd.stack /\ ignore' = t.rd.ignore
                  /\ ss_missing_dsd' = t.rd.ss
                  /\ open' = Append(open, elem)
                  /\ input' = IF tag = Tag("str", "CubeRegion") THEN <<>> ELSE input
                  /\ UNCHANGED <<pc, err, ret>>
    /\ nev' = nev + 1

\* The end event of the innermost open element; after the end of the root the code
\* after the loop runs.
CubeEnd ==
    /\ pc = "cube"
    /\ open # <<>>
    /\ \E elem \in {open[Len(open)]} :
       \E rest \in {SubSeq(open, 1, Len(open) - 1)} :
       \E parent \in {IF rest = <<>> THEN NoElem ELSE rest[Len(rest)]} :
       \E rd \in {CurRd} :
       \E t \in {Turn(rd, "end", elem, parent)} :
       \E left \in {IF t.cleared THEN Elem(elem.tag, NoAttrib, <<>>, <<>>) ELSE elem} :
          /\ op' = OpOf(t, "end", elem)
          /\ IF t.exc # "" THEN Wrapped(t) /\ open' = open /\ input' = input
             ELSE /\ open' = IF rest = <<>> THEN <<>>
                             ELSE [rest EXCEPT ![Len(rest)].children = Append(@, left)]
                  /\ input' = IF elem.tag \in {Tag("com", "KeyValue"), Tag("com", "Attribute")}
                                THEN Append(input, [ln |-> elem.tag.ln,
                                                    id |-> AttrGet(elem.attrib, "id"),
                                                    ms |-> t.result])
                                ELSE input
                  /\ IF rest = <<>> THEN AfterLoop(t.rd)
                     ELSE /\ heap' = t.rd.heap /\ stack' = t.rd.stack
                          /\ ignore' = t.rd.ignore /\ ss_missing_dsd' = t.rd.ss
                          /\ UNCHANGED <<pc, err, ret>>
    /\ nev' = nev + 1

NextCube ==
    \/ \E tag \in UNION {CubeChildTags(g) : g \in KnownTags} :
          \E attrib \in UNION {CubeAttribsOf(tag, g) : g \in KnownTags} : CubeStart(tag, attrib)
    \/ CubeEnd

SpecCube == InitCube /\ [][NextCube]_vars

\* The step is the end event of a <str:CubeRegion> that _cr() has built a CubeRegion
\* for.
CubeRegionEnd ==
    /\ nev' = nev + 1 /\ op'.kind = "event" /\ op'.func = "_cr" /\ op'.exc = ""

\* The MemberSelections made inside the open cube region.
Made == {input[i].ms : i \in 1..Len(input)} \ {None}

\* C23: at the end event of a <str:CubeRegion>, the member mapping of the CubeRegion
\* has exactly one entry for each distinct Component that the member selections made
\* for its <com:KeyValue> and <com:Attribute> children are for; each entry maps the
\* Component to one of these selections, whose values_for is that Component; each
\* selection is for the dimension (KeyValue) or attribute (Attribute) its element names;
\* and no MemberSelection is on the stack after the event.
C23_CubeRegionMembers ==
    [][CubeRegionEnd =>
         LET member == heap'[op'.result].member
             components == {heap[ms].values_for : ms \in Made}
         IN /\ Len(member) = Cardinality(components)
            /\ {member[i].key : i \in 1..Len(member)} = components
            /\ \A i \in 1..Len(member) :
                  /\ member[i].value \in Made
                  /\ heap'[member[i].value].cls = "MemberSelection"
                  /\ heap'[member[i].value].values_for = member[i].key
            /\ \A i \in 1..Len(input) :
                  input[i].ms # None =>
                     /\ heap'[heap'[input[i].ms].values_for].id = input[i].id
                     /\ heap'[heap'[input[i].ms].values_for].cls =
                           IF input[i].ln = "KeyValue" THEN "Dimension" ELSE "DataAttribute"
            /\ \A v \in OnStack(stack') : heap'[v].cls # "MemberSelection"]_vars

\* A cube region was built from three selections for two components, the dimension A
\* selected twice and the attribute X, one of them with a value.
C23_Witness ==
    /\ op.kind = "event" /\ op.func = "_cr" /\ op.exc = "" /\ pc = "cube"
    /\ Len(input) = 3 /\ Cardinality(Made) = 3
    /\ Len(heap[op.result].member) = 2
    /\ \E ms \in Made : heap[ms].val # <<>>

\* element.clear() has been called on the element and nothing was added since.
Cleared(e) == e.attrib = NoAttrib /\ e.text = <<>> /\ e.children = <<>>

\* The element whose end event the step has processed without an exception, as its
\* parent holds it after the step.
Ended == open'[Len(open')].children[Len(open'[Len(open')].children)]

\* C25: upon every end event that the driver processes, the element is cleared, also
\* when the handler registered for the event is the explicit no-op (None).
C25_EndClears ==
    [][(/\ nev' = nev + 1 /\ op'.kind = "event" /\ op'.event = "end" /\ op'.exc = ""
        /\ open' # <<>> /\ pc' = pc)
          => Cleared(Ended)]_vars

(***************************************************************************)
(* sdmx.rest.Resource.  A name is the sequence of its characters, so that  *)
(* str.lower() and the lookup of a member by name are computed as Python   *)
(* computes them.                                                          *)
(***************************************************************************)
MaxCalls == 2

\* The names of the members of the enumeration (lines 48-79).
Resource ==
    {
<<"a", "c", "t", "u", "a", "l", "c", "o", "n", "s", "t", "r", "a", "i", "n", "t">>,
      <<"a", "g", "e", "n", "c", "y", "s", "c", "h", "e", "m", "e">>,
      <<"a", "l", "l", "o", "w", "e", "d", "c", "o", "n", "s", "t", "r", "a", "i", "n", "t">>,
      <<"a", "t", "t", "a", "c", "h", "e", "m", "e", "n", "t", "c", "o", "n", "s", "t", "r", "a", "i", "n", "t">>,
      <<"c", "a", "t", "e", "g", "o", "r", "i", "s", "a", "t", "i", "o", "n">>,
      <<"c", "a", "t", "e", "g", "o", "r", "y", "s", "c", "h", "e", "m", "e">>,
      <<"c", "o", "d", "e", "l", "i", "s", "t">>,
      <<"c", "o", "n", "c", "e", "p", "t", "s", "c", "h", "e", "m", "e">>,
      <<"c", "o", "n", "t", "e", "n", "t", "c", "o", "n", "s", "t", "r", "a", "i", "n", "t">>,
      <<"c", "u", "s", "t", "o", "m", "t", "y", "p", "e", "s", "c", "h", "e", "m", "e">>,
      <<"d", "a", "t", "a">>,
      <<"d", "a", "t", "a", "c", "o", "n", "s", "u", "m", "e", "r", "s", "c", "h", "e", "m", "e">>,
      <<"d", "a", "t", "a", "f", "l", "o", "w">>,
      <<"d", "a", "t", "a", "p", "r", "o", "v", "i", "d", "e", "r", "s", "c", "h", "e", "m", "e">>,
      <<"d", "a", "t", "a", "s", "t", "r", "u", "c", "t", "u", "r", "e">>,
      <<"h", "i", "e", "r", "a", "r", "c", "h", "i", "c", "a", "l", "c", "o", "d", "e", "l", "i", "s", "t">>,
      <<"m", "e", "t", "a", "d", "a", "t", "a">>,
      <<"m", "e", "t", "a", "d", "a", "t", "a", "f", "l", "o", "w">>,
      <<"m", "e", "t", "a", "d", "a", "t", "a", "s", "t", "r", "u", "c", "t", "u", "r", "e">>,
      <<"n", "a", "m", "e", "p", "e", "r", "s", "o", "n", "a", "l", "i", "s", "a", "t", "i", "o", "n", "s", "c", "h", "e", "m", "e">>,
      <<"o", "r", "g", "a", "n", "i", "s", "a", "t", "i", "o", "n", "s", "c", "h", "e", "m", "e">>,
      <<"o", "r", "g", "a", "n", "i", "s", "a", "t", "i", "o", "n", "u", "n", "i", "t", "s", "c", "h", "e", "m", "e">>,
      <<"p", "r", "o", "c", "e", "s", "s">>,
      <<"p", "r", "o", "v", "i", "s", "i", "o", "n", "a", "g", "r", "e", "e", "m", "e", "n", "t">>,
      <<"r", "e", "p", "o", "r", "t", "i", "n", "g", "t", "a", "x", "o", "n", "o", "m", "y">>,
      <<"r", "u", "l", "e", "s", "e", "t", "s", "c", "h", "e", "m", "e">>,
      <<"s", "c", "h", "e", "m", "a">>,
      <<"s", "t", "r", "u", "c", "t", "u", "r", "e">>,
      <<"s", "t", "r", "u", "c", "t", "u", "r", "e", "s", "e", "t">>,
      <<"t", "r", "a", "n", "s", "f", "o", "r", "m", "a", "t", "i", "o", "n", "s", "c", "h", "e", "m", "e">>,
      <<"u", "s", "e", "r", "d", "e", "f", "i", "n", "e", "d", "o", "p", "e", "r", "a", "t", "o", "r", "s", "c", "h", "e", "m", "e">>,
      <<"v", "t", "l", "m", "a", "p", "p", "i", "n", "g", "s", "c", "h", "e", "m", "e">>}

\* obj.__class__.__name__ for an object of the model class cls.
ClassName(cls) ==
    CASE cls = "ContentConstraint" -> <<"C", "o", "n", "t", "e", "n", "t", "C", "o", "n", "s", "t", "r", "a", "i", "n", "t">>
      [] cls = "AgencyScheme" -> <<"A", "g", "e", "n", "c", "y", "S", "c", "h", "e", "m", "e">>
      [] cls = "AttachmentConstraint" -> <<"A", "t", "t", "a", "c", "h", "m", "e", "n", "t", "C", "o", "n", "s", "t", "r", "a", "i", "n", "t">>
      [] cls = "Categorisation" -> <<"C", "a", "t", "e", "g", "o", "r", "i", "s", "a", "t", "i", "o", "n">>
      [] cls = "CategoryScheme" -> <<"C", "a", "t", "e", "g", "o", "r", "y", "S", "c", "h", "e", "m", "e">>
      [] cls = "Codelist" -> <<"C", "o", "d", "e", "l", "i", "s", "t">>
      [] cls = "ConceptScheme" -> <<"C", "o", "n", "c", "e", "p", "t", "S", "c", "h", "e", "m", "e">>
      [] cls = "DataSet" -> <<"D", "a", "t", "a", "S", "e", "t">>
      [] cls = "DataflowDefinition" -> <<"D", "a", "t", "a", "f", "l", "o", "w", "D", "e", "f", "i", "n", "i", "t", "i", "o", "n">>
      [] cls = "DataConsumerScheme" -> <<"D", "a", "t", "a", "C", "o", "n", "s", "u", "m", "e", "r", "S", "c", "h", "e", "m", "e">>
      [] cls = "DataProviderScheme" -> <<"D", "a", "t", "a", "P", "r", "o", "v", "i", "d", "e", "r", "S", "c", "h", "e", "m", "e">>
      [] cls = "DataStructureDefinition" -> <<"D", "a", "t", "a", "S", "t", "r", "u", "c", "t", "u", "r", "e", "D", "e", "f", "i", "n", "i", "t", "i", "o", "n">>
      [] cls = "OrganisationScheme" -> <<"O", "r", "g", "a", "n", "i", "s", "a", "t", "i", "o", "n", "S", "c", "h", "e", "m", "e">>
      [] cls = "ProvisionAgreement" -> <<"P", "r", "o", "v", "i", "s", "i", "o", "n", "A", "g", "r", "e", "e", "m", "e", "n", "t">>
      [] cls = "Code" -> <<"C", "o", "d", "e">>
      [] cls = "StructureMessage" -> <<"S", "t", "r", "u", "c", "t", "u", "r", "e", "M", "e", "s", "s", "a", "g", "e">>

\* The upper-case letters and their lower-case letters.
Upper == <<"A", "B", "C", "D", "E", "F", "G", "H", "I", "J", "K", "L", "M",
           "N", "O", "P", "Q", "R", "S", "T", "U", "V", "W", "X", "Y", "Z">>

Lower == <<"a", "b", "c", "d", "e", "f", "g", "h", "i", "j", "k", "l", "m",
           "n", "o", "p", "q", "r", "s", "t", "u", "v", "w", "x", "y", "z">>

\* str.lower()
lower(name) ==
    [i \in 1..Len(name) |->
        IF \E u \in 1..Len(Upper) : Upper[u] = name[i]
          THEN Lower[CHOOSE u \in 1..Len(Upper) : Upper[u] = name[i]]
          ELSE name[i]]

\* Resource.from_obj(obj) for an object of the model class cls: v is the member
\* returned, exc the exception raised ("" for none).
from_obj(cls) ==
    LET clsname == IF cls = "DataStructureDefinition"
                     THEN <<"d", "a", "t", "a", "s", "t", "r", "u", "c", "t", "u", "r", "e">>
                     ELSE ClassName(cls)
    IN IF lower(clsname) \in Resource THEN [v |-> lower(clsname), exc |-> ""]
       ELSE [v |-> <<>>, exc |-> "KeyError"]

\* The table of the docstring of Resource (lines 9-27): the members and the model
\* class beside each; the row of structure ("Mixed.") names no class.
ResourceTable ==
    {
[member |-> <<"a", "c", "t", "u", "a", "l", "c", "o", "n", "s", "t", "r", "a", "i", "n", "t">>, cls |-> "ContentConstraint"],
      [member |-> <<"a", "g", "e", "n", "c", "y", "s", "c", "h", "e", "m", "e">>, cls |-> "AgencyScheme"],
      [member |-> <<"a", "l", "l", "o", "w", "e", "d", "c", "o", "n", "s", "t", "r", "a", "i", "n", "t">>, cls |-> "ContentConstraint"],
      [member |-> <<"a", "t", "t", "a", "c", "h", "e", "m", "e", "n", "t", "c", "o", "n", "s", "t", "r", "a", "i", "n", "t">>, cls |-> "AttachmentConstraint"],
      [member |-> <<"c", "a", "t", "e", "g", "o", "r", "i", "s", "a", "t", "i", "o", "n">>, cls |-> "Categorisation"],
      [member |-> <<"c", "a", "t", "e", "g", "o", "r", "y", "s", "c", "h", "e", "m", "e">>, cls |-> "CategoryScheme"],
      [member |-> <<"c", "o", "d", "e", "l", "i", "s", "t">>, cls |-> "Codelist"],
      [member |-> <<"c", "o", "n", "c", "e", "p", "t", "s", "c", "h", "e", "m", "e">>, cls |-> "ConceptScheme"],
      [member |-> <<"c", "o", "n", "t", "e", "n", "t", "c", "o", "n", "s", "t", "r", "a", "i", "n", "t">>, cls |-> "ContentConstraint"],
      [member |-> <<"d", "a", "t", "a">>, cls |-> "DataSet"],
      [member |-> <<"d", "a", "t", "a", "f", "l", "o", "w">>, cls |-> "DataflowDefinition"],
      [member |-> <<"d", "a", "t", "a", "c", "o", "n", "s", "u", "m", "e", "r", "s", "c", "h", "e", "m", "e">>, cls |-> "DataConsumerScheme"],
      [member |-> <<"d", "a", "t", "a", "p", "r", "o", "v", "i", "d", "e", "r", "s", "c", "h", "e", "m", "e">>, cls |-> "DataProviderScheme"],
      [member |-> <<"d", "a", "t", "a", "s", "t", "r", "u", "c", "t", "u", "r", "e">>, cls |-> "DataStructureDefinition"],
      [member |-> <<"o", "r", "g", "a", "n", "i", "s", "a", "t", "i", "o", "n", "s", "c", "h", "e", "m", "e">>, cls |-> "OrganisationScheme"],
      [member |-> <<"p", "r", "o", "v", "i", "s", "i", "o", "n", "a", "g", "r", "e", "e", "m", "e", "n", "t">>, cls |-> "ProvisionAgreement"]}

\* The classes of the objects from_obj is called with: those of the table and two
\* that are not in it.
RestClasses == {r.cls : r \in ResourceTable} \cup {"Code", "StructureMessage"}

(***************************************************************************)
(* SpecRest: a caller applies Resource.from_obj to objects, one after the  *)
(* other; input is the classes of the objects still to come.               *)
(***************************************************************************)
InitRest ==
    /\ input \in UNION {[1..n -> RestClasses] : n \in 1..MaxCalls}
    /\ heap = <<>> /\ stack = <<>> /\ ignore = {} /\ ss_missing_dsd = FALSE
    /\ pc = "rest" /\ op = NoOp /\ ret = None /\ err = NoErr
    /\ open = <<>> /\ nev = 0

\* Resource.from_obj(obj) for the next object.
FromObj ==
    /\ pc = "rest" /\ input # <<>>
    /\ \E r \in {from_obj(Head(input))} :
          op' = [kind |-> "from_obj", cls |-> Head(input), result |-> r.v, exc |-> r.exc]
    /\ input' = Tail(input)
    /\ nev' = nev + 1
    /\ UNCHANGED <<heap, stack, ignore, ss_missing_dsd, pc, ret, err, open>>

NextRest == FromObj

SpecRest == InitRest /\ [][NextRest]_vars

\* C26: Resource.from_obj(obj) returns, for an object of each class of the table of
\* the docstring of Resource, a member that the table lists beside that class.
C26_FromObjTable ==
    (op.kind = "from_obj" /\ op.cls \in {r.cls : r \in ResourceTable}) =>
        /\ op.exc = ""
        /\ [member |-> op.result, cls |-> op.cls] \in ResourceTable

(***************************************************************************)
(* SpecTry: one element that need not hold a reference, read by the driver *)
(* inside its parent: the start and the end event of an element of a tag   *)
(* whose handler tries Reference(elem) first (_dfd, _component, _cl,       *)
(* _item) or of a reference leaf (_ref).  input is the element, its parent *)
(* and whether a DataStructureDefinition is on the stack.                  *)
(***************************************************************************)
SpeculativeTags ==
    {Tag("str", "Dataflow"), Tag("str", "Dimension"), Tag("str", "Attribute"),
     Tag("str", "Group"), Tag("str", "DimensionList"), Tag("str", "AttributeList"),
     Tag("str", "Code"), Tag("str", "DataProvider")}

LeafTags ==
    {Tag("str", "Structure"), Tag("str", "Parent"), Tag("str", "Enumeration"),
     Tag("com", "Structure")}

\* The child elements of the element at its end event: none, elements that are no
\* <Ref> or <URN> (a <Ref> may follow them), a <Ref>, a <URN>.
TryChildren ==
    LET name == Elem(Tag("com", "Name"), NoAttrib, <<>>, <<>>)
        ref == Elem(Tag("", "Ref"),
                    [n \in {"id", "class", "package"} |->
                        CASE n = "id" -> "D" [] n = "class" -> "DataStructure"
                          [] OTHER -> "datastructure"], <<>>, <<>>)
        urn == Elem(Tag("", "URN"), NoAttrib, UrnText("Codelist", "ECB", "A", "1.0", NoStr),
                    <<>>)
    IN {<<>>, <<name>>, <<name, ref>>, <<name, urn>>, <<ref>>, <<urn>>}

TryInputs ==
    {x \in {[elem |-> Elem(tag, attrib, <<>>, kids),
             parent |-> Elem(Tag("str", up), NoAttrib, <<>>, <<>>), dsd |-> d] :
               tag \in SpeculativeTags \cup LeafTags,
               attrib \in {NoAttrib, [n \in {"id"} |-> "A"]},
               kids \in TryChildren, up \in {"Code", "DataStructureComponents"},
               d \in BOOLEAN} :
        \* <str:Parent> is a child of an item
        x.elem.tag = Tag("str", "Parent") => x.parent.tag = Tag("str", "Code")}

InitTry ==
    /\ input \in TryInputs
    /\ heap = IF input.dsd THEN <<NewObj("DataStructureDefinition", "D")>> ELSE <<>>
    /\ stack = IF input.dsd
                 THEN <<[key |-> ClsKey("DataStructureDefinition"), vals |-> <<1>>]>> ELSE <<>>
    /\ ignore = {None} /\ ss_missing_dsd = FALSE
    /\ pc = "try" /\ op = NoOp /\ ret = None /\ err = NoErr
    /\ open = <<input.parent>> /\ nev = 0

\* The start event of the element: its children are not read yet.
TryStart ==
    /\ pc = "try" /\ Len(open) = 1
    /\ \E elem \in {Elem(input.elem.tag, input.elem.attrib, <<>>, <<>>)} :
       \E t \in {Turn(CurRd, "start", elem, open[1])} :
          /\ op' = OpOf(t, "start", elem)
          /\ IF t.exc # "" THEN Wrapped(t) /\ open' = open
             ELSE /\ heap' = t.rd.heap /\ stack' = t.rd.stack /\ ignore' = t.rd.ignore
                  /\ ss_missing_dsd' = t.rd.ss
                  /\ open' = Append(open, elem)
                  /\ UNCHANGED <<pc, err, ret>>
    /\ nev' = nev + 1
    /\ UNCHANGED input

\* The end event of the element, its children read.
TryEnd ==
    /\ pc = "try" /\ Len(open) = 2
    /\ \E t \in {Turn(CurRd, "end", input.elem, open[1])} :
          /\ op' = OpOf(t, "end", input.elem)
          /\ IF t.exc # "" THEN Wrapped(t) /\ open' = open
             ELSE /\ heap' = t.rd.heap /\ stack' = t.rd.stack /\ ignore' = t.rd.ignore
                  /\ ss_missing_dsd' = t.rd.ss
                  /\ open' = <<open[1]>>
                  /\ pc' = "tried" /\ UNCHANGED <<err, ret>>
    /\ nev' = nev + 1
    /\ UNCHANGED input

NextTry == TryStart \/ TryEnd

SpecTry == InitTry /\ [][NextTry]_vars

\* The element has no child, or its first child is neither <Ref> nor <URN>.
NoReference ==
    \/ input.elem.children = <<>>
    \/ input.elem.children[1].tag \notin {Tag("", "Ref"), Tag("", "URN")}

\* The class of the definition that an element of that tag defines.
DefinitionClass(tag) ==
    CASE tag.ln = "Dataflow" -> "DataflowDefinition"
      [] tag.ln = "Attribute" -> "DataAttribute"
      [] tag.ln = "Group" -> "GroupDimensionDescriptor"
      [] tag.ln = "DimensionList" -> "DimensionDescriptor"
      [] tag.ln = "AttributeList" -> "AttributeDescriptor"
      [] tag.ln = "MeasureList" -> "MeasureDescriptor"
      [] OTHER -> tag.ln

\* C27: for an element with no child, or whose first child is neither <Ref> nor <URN>,
\* Reference(elem) raises NotReference.  At the end event of such an element a handler
\* that tries the reference first does not fail with NotReference and, unless building
\* fails for another reason, makes one new object, a definition of the element's class
\* and no Reference; the reference-leaf handler fails with NotReference, the parse ends
\* with XMLParseError, and no object was made or pushed.
C27_NotReference ==
    [][(pc = "try" /\ Len(open) = 2 /\ nev' = nev + 1 /\ NoReference) =>
         /\ \A h \in {NoStr, "GroupDimensionDescriptor", "DataStructureDefinition", "Code"} :
               ReferenceInit(input.elem, h).exc = "NotReference"
         /\ input.elem.tag \in SpeculativeTags =>
               /\ op'.exc # "NotReference"
               /\ op'.exc = "" =>
                     /\ \E v \in (1..Len(heap')) \ (1..Len(heap)) :
                           heap'[v].cls = DefinitionClass(input.elem.tag)
                     /\ \A v \in (1..Len(heap')) \ (1..Len(heap)) : heap'[v].cls # "Reference"
         /\ input.elem.tag \in LeafTags =>
               /\ op'.exc = "NotReference"
               /\ pc' = "failed" /\ err' = [kind |-> "XMLParseError", cause |-> "NotReference"]
               /\ heap' = heap /\ OnStack(stack') = OnStack(stack)]_vars

\* A <str:Dataflow> whose first child is a <com:Name> and whose second is a <Ref> was
\* read as the definition of a dataflow.
C27_Witness ==
    /\ pc = "tried" /\ NoReference /\ Len(input.elem.children) = 2
    /\ input.elem.tag = Tag("str", "Dataflow")
    /\ op.exc = "" /\ op.result # None /\ heap[op.result].cls = "DataflowDefinition"
    /\ heap[op.result].id = "A"

\* The items of the heap h that the <Ref> of a <str:Parent> names (the documents' <Ref>
\* have the id A), other than the item v itself.
Referenced(h, v) == {a \in 1..Len(h) : h[a].cls = "Code" /\ h[a].id = "A" /\ a # v}

\* C28: at the end event of an item the children of the item are exactly the items that
\* its own nested item elements have defined, and an item with a <str:Parent> reference
\* to an item of the scheme is a child of that item: at its own end event when the item
\* referenced was defined before it, top-level or nested in another item, and when the
\* scheme is built also when the item referenced was defined after it.
C28_ItemChildren ==
    [][/\ ItemEnd =>
            /\ Range(heap'[op'.result].items) = Range(input[Len(input)].made)
            /\ Len(heap'[op'.result].items) = Len(input[Len(input)].made)
            /\ (HasParent(open[Len(open)]) /\ Referenced(heap, op'.result) # {}) =>
                  \E a \in Referenced(heap, op'.result) : op'.result \in Range(heap'[a].items)
       /\ (nev' = nev + 1 /\ SchemeBuilt') =>
            \A v \in input[1].refs :
               Referenced(heap', v) # {} =>
                  \E a \in Referenced(heap', v) : v \in Range(heap'[a].items)]_vars

(***************************************************************************)
(* SpecLists: read_message() over the events of the <str:DataStructures>   *)
(* of a structure message, from the state it has when the element is       *)
(* opened: the message is on the stack and, when a dataflow read before    *)
(* referred to a data structure, the external-reference stub that          *)
(* resolve() made for it.  The data structures have component lists with   *)
(* and without an id.  input is the DSD that _dsd_start() created or       *)
(* reused for the <str:DataStructure> that is open (None outside one).     *)
(***************************************************************************)
MaxListEvents == 17

ListTags ==
    {Tag("str", "DimensionList"), Tag("str", "AttributeList"), Tag("str", "MeasureList"),
     Tag("str", "Group")}

\* The elements a document may have inside an element of that tag.
ListChildTags(tag) ==
    CASE tag = Tag("str", "DataStructures") -> {Tag("str", "DataStructure")}
      [] tag = Tag("str", "DataStructure") -> {Tag("str", "DataStructureComponents")}
      [] tag = Tag("str", "DataStructureComponents") -> ListTags
      [] tag = Tag("str", "DimensionList") -> {Tag("str", "Dimension")}
      [] OTHER -> {}

\* The number of child elements an element of that tag may have.
ListMaxChildren(tag) ==
    CASE tag \in {Tag("str", "DataStructure"), Tag("str", "DimensionList")} -> 1
      [] OTHER -> 2

\* The attributes an element of that tag may carry.
ListAttribsOf(tag) ==
    CASE tag = Tag("str", "DataStructure") -> {[n \in {"id"} |-> i] : i \in {"D", "E"}}
      [] tag = Tag("str", "Group") -> {NoAttrib, [n \in {"id"} |-> "G"]}
      [] tag \in ListTags ->
            {NoAttrib} \cup {[n \in {"id"} |-> i] :
                                i \in {"DimensionDescriptor", "AttributeDescriptor", "X"}}
      [] tag = Tag("str", "Dimension") -> {[n \in {"id"} |-> "A"]}
      [] OTHER -> {NoAttrib}

\* The ids of the data structures that a dataflow read before referred to.
StubIds == {<<>>, <<"D">>, <<"E">>}

\* The Reader when <str:DataStructures> is opened, after the stubs of those ids.
RECURSIVE WithStubs(_, _)
WithStubs(rd, ids) ==
    IF ids = <<>> THEN rd
    ELSE With([o \in {maintainable(rd, "DataStructureDefinition", NoElem, StubKw(Head(ids)))} |->
             WithStubs(Push1(o.rd, o.v), Tail(ids))])

InitLists ==
    /\ \E ids \in StubIds :
       \E m \in {Alloc(Rd(<<>>, <<>>, {None}, FALSE), NewObj("StructureMessage", NoStr))} :
       \E rd \in {WithStubs(Push1(m, 1), ids)} :
          heap = rd.heap /\ stack = rd.stack /\ ignore = rd.ignore /\ ss_missing_dsd = rd.ss
    /\ pc = "lists" /\ op = NoOp /\ ret = None /\ err = NoErr
    /\ open = << Elem(Tag("mes", "Structure"), NoAttrib, <<>>, <<>>),
                 Elem(Tag("mes", "Structures"), NoAttrib, <<>>, <<>>),
                 Elem(Tag("str", "DataStructures"), NoAttrib, <<>>, <<>>) >>
    /\ nev = 0 /\ input = None

\* The DSD that _dsd_start() has created or reused: the one it pushed, else the one
\* that was there.
StartedDsd(before, after) ==
    IF Bucket(after.stack, ClsKey("DataStructureDefinition"))
          # Bucket(before.stack, ClsKey("DataStructureDefinition"))
      THEN Len(after.heap)
      ELSE Get(before, ClsKey("DataStructureDefinition"), NoStr, FALSE).v

\* A start event.
ListStart(tag, attrib) ==
    /\ pc = "lists"
    /\ nev + Len(open) + 2 <= MaxListEvents
    /\ open # <<>>
    /\ tag \in ListChildTags(open[Len(open)].tag)
    /\ Len(open[Len(open)].children) < ListMaxChildren(open[Len(open)].tag)
    /\ attrib \in ListAttribsOf(tag)
    /\ \E elem \in {Elem(tag, attrib, <<>>, <<>>)} :
       \E rd \in {CurRd} :
       \E t \in {Turn(rd, "start", elem, open[Len(open)])} :
          /\ op' = OpOf(t, "start", elem)
          /\ IF t.exc # "" THEN Wrapped(t) /\ open' = open /\ input' = input
             ELSE /\ heap' = t.rd.heap /\ stack' = t.rd.stack /\ ignore' = t.rd.ignore
                  /\ ss_missing_dsd' = t.rd.ss
                  /\ open' = Append(open, elem)
                  /\ input' = IF tag = Tag("str", "DataStructure") THEN StartedDsd(rd, t.rd)
                              ELSE input
                  /\ UNCHANGED <<pc, err, ret>>
    /\ nev' = nev + 1

\* The end event of the innermost open element; after the end of the root the code
\* after the loop runs.
ListEnd ==
    /\ pc = "lists"
    /\ open # <<>>
    /\ \E elem \in {open[Len(open)]} :
       \E rest \in {SubSeq(open, 1, Len(open) - 1)} :
       \E parent \in {IF rest = <<>> THEN NoElem ELSE rest[Len(rest)]} :
       \E rd \in {CurRd} :
       \E t \in {Turn(rd, "end", elem, parent)} :
       \E left \in {IF t.cleared THEN Elem(elem.tag, NoAttrib, <<>>, <<>>) ELSE elem} :
          /\ op' = OpOf(t, "end", elem)
          /\ IF t.exc # "" THEN Wrapped(t) /\ open' = open /\ input' = input
             ELSE /\ open' = IF rest = <<>> THEN <<>>
                             ELSE [rest EXCEPT ![Len(rest)].children = Append(@, left)]
                  /\ input' = IF elem.tag = Tag("str", "DataStructure") THEN None ELSE input
                  /\ IF rest = <<>> THEN AfterLoop(t.rd)
                     ELSE /\ heap' = t.rd.heap /\ stack' = t.rd.stack
                          /\ ignore' = t.rd.ignore /\ ss_missing_dsd' = t.rd.ss
                          /\ UNCHANGED <<pc, err, ret>>
    /\ nev' = nev + 1

NextLists ==
    \/ \E tag \in UNION {ListChildTags(g) : g \in KnownTags} :
          \E attrib \in ListAttribsOf(tag) : ListStart(tag, attrib)
    \/ ListEnd

SpecLists == InitLists /\ [][NextLists]_vars

\* The step is the end event of a component list element.
ListEndEvent ==
    /\ pc = "lists" /\ nev' = nev + 1 /\ op'.kind = "event" /\ op'.event = "end"
    /\ op'.tag \in ListTags

\* The component lists that the DSD d of the heap h has.
ListsOf(h, d) == ({h[d].dimensions, h[d].attributes} \cup h[d].links) \ {None}

\* The objects made by the step.
NewObjects == (1..Len(heap')) \ (1..Len(heap))

\* C29: at the end event of every component list inside a <str:DataStructure>, when the
\* name _cl() takes for the class of the list is the name of a class, the list is built
\* and attached to the DSD that was created or reused at the start event of
\* that element, whatever other DataStructureDefinition objects are on the stack.
C29_ListsAttached ==
    [][(ListEndEvent /\ get_sdmx_class(ListClassName(open[Len(open)])) # "KeyError") =>
         /\ op'.exc = ""
         /\ \E cl \in NewObjects :
               /\ IsSubclass(heap'[cl].cls, "ComponentList")
               /\ cl \in ListsOf(heap', input)
               /\ \A d \in 1..Len(heap') :
                     (heap'[d].cls = "DataStructureDefinition" /\ d # input)
                        => cl \notin ListsOf(heap', d)]_vars

\* C30: at the end event of a <str:DimensionList>, <str:AttributeList>,
\* <str:MeasureList> or <str:Group> that finds the DSD (exactly one is on the stack),
\* a DimensionDescriptor, AttributeDescriptor, MeasureDescriptor or
\* GroupDimensionDescriptor respectively is built, whatever the id attribute of the
\* element; for a list element without an id attribute the id of the descriptor is the
\* name of its class, the tag with List replaced by Descriptor.
C30_DescriptorOfTag ==
    [][(ListEndEvent /\ Len(MatchingVals(stack, "DataStructureDefinition")) = 1) =>
         /\ op'.exc = ""
         /\ \E cl \in NewObjects :
               /\ heap'[cl].cls = DefinitionClass(op'.tag)
               /\ cl \in ListsOf(heap', input)
               /\ ("id" \notin DOMAIN open[Len(open)].attrib /\ op'.tag.ln # "Group")
                     => heap'[cl].id = DefinitionClass(op'.tag)]_vars

(***************************************************************************)
(* The writer (sdmx/writer/xml.py) and the round trip.  A StructureMessage *)
(* m is on the heap; to_xml(m) builds the element tree, and read_message   *)
(* then reads the events of that tree in document order.  The writer's     *)
(* functions give [elem, exc]: the element built and the exception raised  *)
(* ("" for none).  libexc is the exception lxml raises for an attribute    *)
(* value that is not a string.                                             *)
(***************************************************************************)
MaxCodes == 2

\* The ids of the codes of the codelist, in the order of Codelist.items.
CodeIds == <<"A", "B", "C">>

\* sdmx.urn.make called with the positional arguments args: the function has one
\* parameter, obj, and formats obj.maintainer.id, obj.id and obj.version.
make(h, args) ==
    IF Len(args) # 1 THEN [v |-> NoStr, exc |-> "TypeError"]
    ELSE IF IsSubclass(h[args[1]].cls, "MaintainableArtefact") THEN [v |-> "urn", exc |-> ""]
    ELSE [v |-> NoStr, exc |-> "AttributeError"]

\* Element(name, *args, **kwargs) of the writer: the keyword arguments that are None
\* are removed, the others are the attributes.
Element(tag, text, kw) ==
    Elem(tag, [n \in {k \in DOMAIN kw : kw[k] # NoStr} |-> kw[n]], text, <<>>)

\* i11lstring(obj, name): one element for each localization, with its xml:lang.
RECURSIVE i11lstring(_, _, _)
i11lstring(h, names, tag) ==
    IF names = <<>> THEN <<>>
    ELSE << Elem(tag, [n \in {"xml:lang"} |-> h[Head(names)].val[1]],
                 h[Head(names)].val[2], <<>>) >>
         \o i11lstring(h, Tail(names), tag)

\* identifiable(obj, **kwargs) of the writer, then annotable(): parent is the keyword
\* argument parent (None when the caller gave none).  obj.urn, when there is one, is
\* taken and "parent" stays in kwargs, which Element() hands to lxml as an attribute;
\* otherwise sdmx.urn.make(obj, kwargs.pop("parent", None)) is called, and only
\* AttributeError and ValueError are caught.
WriteIdentifiable(h, obj, tag, parent, libexc) ==
    IF Truthy(h[obj].urn)
      THEN IF parent # None THEN [elem |-> NoElem, exc |-> libexc]
           ELSE [elem |-> Element(tag, <<>>,
                                  [n \in {"id", "urn"} |->
                                      IF n = "id" THEN h[obj].id ELSE h[obj].urn]),
                 exc |-> ""]
    ELSE With([urn \in {make(h, <<obj, parent>>)} |->
        IF urn.exc \in {"AttributeError", "ValueError"}
          THEN [elem |-> Element(tag, <<>>, [n \in {"id"} |-> h[obj].id]), exc |-> ""]
        ELSE IF urn.exc # "" THEN [elem |-> NoElem, exc |-> urn.exc]
        ELSE [elem |-> Element(tag, <<>>,
                               [n \in {"id", "urn"} |-> IF n = "id" THEN h[obj].id ELSE urn.v]),
              exc |-> ""]])

\* nameable(obj, **kwargs) of the writer; maintainable() adds nothing to it.
WriteNameable(h, obj, tag, parent, libexc) ==
    With([o \in {WriteIdentifiable(h, obj, tag, parent, libexc)} |->
        IF o.exc # "" THEN o
        ELSE [elem |-> [o.elem EXCEPT !.children =
                           i11lstring(h, h[obj].names, Tag("com", "Name"))
                           \o i11lstring(h, h[obj].descs, Tag("com", "Description"))],
              exc |-> ""]])

\* _i(obj: Item, **kwargs): the item, with a <str:Parent> reference when it has a parent.
_i(h, obj, parent, libexc) ==
    With([o \in {WriteNameable(h, obj, Tag("str", h[obj].cls), parent, libexc)} |->
        IF o.exc # "" \/ h[obj].parent = None THEN o
        ELSE [elem |-> [o.elem EXCEPT !.children =
                           Append(@, Elem(Tag("str", "Parent"), NoAttrib, <<>>,
                                          << Element(Tag("", "Ref"), <<>>,
                                                     [n \in {"id"} |-> h[h[obj].parent].id]) >>))],
              exc |-> ""]])

\* The loop of _is() over obj.items.values(): [elems, exc].
RECURSIVE WriteItems(_, _, _, _)
WriteItems(h, scheme, items, libexc) ==
    IF items = <<>> THEN [elems |-> <<>>, exc |-> ""]
    ELSE With([o \in {_i(h, Head(items), scheme, libexc)} |->
        IF o.exc # "" THEN [elems |-> <<>>, exc |-> o.exc]
        ELSE With([rest \in {WriteItems(h, scheme, Tail(items), libexc)} |->
            [elems |-> <<o.elem>> \o rest.elems, exc |-> rest.exc]])])

\* _is(obj: ItemScheme): the scheme, then its items, each written with parent=obj.
_is(h, obj, libexc) ==
    With([o \in {WriteNameable(h, obj, Tag("str", h[obj].cls), None, libexc)} |->
        IF o.exc # "" THEN o
        ELSE With([items \in {WriteItems(h, obj, h[obj].items, libexc)} |->
            IF items.exc # "" THEN [elem |-> NoElem, exc |-> items.exc]
            ELSE [elem |-> [o.elem EXCEPT !.children = @ \o items.elems], exc |-> ""]])])

\* The (attribute, tag) pairs of _sm(), in its order.
Containers ==
    << <<"organisation_scheme", "OrganisationSchemes">>, <<"category_scheme", "CategorySchemes">>,
       <<"codelist", "Codelists">>, <<"concept_scheme", "Concepts">>,
       <<"dataflow", "Dataflows">>, <<"structure", "DataStructures">>,
       <<"constraint", "Constraints">>, <<"provisionagreement", "ProvisionAgreements">> >>

\* getattr(obj, attr).values(): the objects of the collection, in the order they were
\* made.
RECURSIVE CollValues(_, _)
CollValues(coll, attr) ==
    LET objs == {e.obj : e \in {c \in coll : c.attr = attr}}
    IN IF objs = {} THEN <<>>
       ELSE With([first \in {CHOOSE x \in objs : \A y \in objs : x <= y} |->
                <<first>> \o CollValues({c \in coll : c.obj # first}, attr)])

\* writer.recurse(s) for the objects of a container, in turn: [elems, exc].
RECURSIVE WriteAll(_, _, _)
WriteAll(h, objs, libexc) ==
    IF objs = <<>> THEN [elems |-> <<>>, exc |-> ""]
    ELSE With([o \in {IF IsSubclass(h[Head(objs)].cls, "ItemScheme")
                        THEN _is(h, Head(objs), libexc)
                        ELSE [elem |-> NoElem, exc |-> "NotImplementedError"]} |->
        IF o.exc # "" THEN [elems |-> <<>>, exc |-> o.exc]
        ELSE With([rest \in {WriteAll(h, Tail(objs), libexc)} |->
            [elems |-> <<o.elem>> \o rest.elems, exc |-> rest.exc]])])

\* The loop of _sm() over the containers: [elems, exc].
RECURSIVE WriteContainers(_, _, _, _)
WriteContainers(h, msg, pairs, libexc) ==
    IF pairs = <<>> THEN [elems |-> <<>>, exc |-> ""]
    ELSE With([o \in {WriteAll(h, CollValues(h[msg].coll, Head(pairs)[1]), libexc)} |->
        IF o.exc # "" THEN [elems |-> <<>>, exc |-> o.exc]
        ELSE With([rest \in {WriteContainers(h, msg, Tail(pairs), libexc)} |->
            [elems |-> << Elem(Tag("str", Head(pairs)[2]), NoAttrib, <<>>, o.elems) >>
                       \o rest.elems,
             exc |-> rest.exc]])])

\* _header(obj: Header) of the writer, for the header of a new message: test is False,
\* id, prepared and sender are not set.
WriteHeader ==
    Elem(Tag("mes", "Header"), NoAttrib, <<>>,
         << Elem(Tag("mes", "Test"), NoAttrib, <<"false">>, <<>>) >>)

\* _sm(obj: StructureMessage)
_sm(h, obj, libexc) ==
    With([o \in {WriteContainers(h, obj, Containers, libexc)} |->
        IF o.exc # "" THEN [elem |-> NoElem, exc |-> o.exc]
        ELSE [elem |-> Elem(Tag("mes", "Structure"), NoAttrib, <<>>,
                            << WriteHeader,
                               Elem(Tag("mes", "Structures"), NoAttrib, <<>>, o.elems) >>),
              exc |-> ""]])

\* The localizations of an InternationalString that was given the tuples names in turn.
Localizations(h, names) ==
    {h[names[i]].val : i \in {k \in 1..Len(names) :
        \A j \in (k + 1)..Len(names) : h[names[j]].val[1] # h[names[k]].val[1]}}

\* NameableArtefact.compare(other, strict=False): the ids, names and descriptions are
\* the same; the URNs are not looked at.
CompareNameable(h, a, b) ==
    /\ h[a].id = h[b].id
    /\ Localizations(h, h[a].names) = Localizations(h, h[b].names)
    /\ Localizations(h, h[a].descs) = Localizations(h, h[b].descs)

\* ItemScheme.compare(other, strict=False): the schemes compare equal and so do their
\* items of the same id.
CompareScheme(h, a, b) ==
    /\ h[a].cls = h[b].cls
    /\ CompareNameable(h, a, b)
    /\ {h[h[a].items[i]].id : i \in 1..Len(h[a].items)}
         = {h[h[b].items[i]].id : i \in 1..Len(h[b].items)}
    /\ \A i \in 1..Len(h[a].items) : \A j \in 1..Len(h[b].items) :
          h[h[a].items[i]].id = h[h[b].items[j]].id
             => CompareNameable(h, h[a].items[i], h[b].items[j])

\* StructureMessage.compare(other, strict=False): the collections hold the same ids and
\* the objects of the same id compare equal.
CompareMessage(h, a, b) ==
    /\ {<<e.attr, e.id>> : e \in h[a].coll} = {<<e.attr, e.id>> : e \in h[b].coll}
    /\ \A e \in h[a].coll : \A f \in h[b].coll :
          (e.attr = f.attr /\ e.id = f.id) => CompareScheme(h, e.obj, f.obj)

\* The parents the codes 1..n can have: None or another code, without a cycle of two.
CodeParents(n) ==
    {p \in [1..n -> 0..n] :
        /\ \A i \in 1..n : p[i] # i
        /\ \A i \in 1..n : p[i] # 0 => p[p[i]] = 0}

\* The message m: a StructureMessage (1) that holds, when hasCl, a Codelist "CL" (2)
\* with n codes (3..2+n); the tuples after them are the localizations of the names of
\* the codelist and of the codes.
MessageOf(hasCl, clNamed, clUrn, n, named, urn, p) ==
    << [NewObj("StructureMessage", NoStr) EXCEPT
           !.coll = IF hasCl THEN {[attr |-> "codelist", id |-> "CL", obj |-> 2]} ELSE {}],
       [NewObj("Codelist", "CL") EXCEPT
           !.items = [i \in 1..n |-> 2 + i],
           !.names = IF clNamed THEN <<3 + n>> ELSE <<>>,
           !.urn = IF clUrn THEN "urn" ELSE NoStr] >>
    \o [i \in 1..n |->
           [NewObj("Code", CodeIds[i]) EXCEPT
               !.names = IF named[i] THEN <<3 + n + i>> ELSE <<>>,
               !.urn = IF urn[i] THEN "urn" ELSE NoStr,
               !.parent = IF p[i] = 0 THEN None ELSE 2 + p[i],
               !.items = [k \in 1..Cardinality({j \in 1..n : p[j] = i}) |->
                             2 + CHOOSE j \in 1..n :
                                     /\ p[j] = i
                                     /\ Cardinality({l \in 1..j : p[l] = i}) = k]]]
    \o << [NewObj("tuple", NoStr) EXCEPT !.val = <<"en", <<"L">>>>] >>
    \o [i \in 1..n |-> [NewObj("tuple", NoStr) EXCEPT !.val = <<"en", <<CodeIds[i]>>>>]]

\* m is built; nothing is written yet.
InitWrite ==
    /\ \E hasCl \in BOOLEAN : \E clNamed \in BOOLEAN : \E clUrn \in BOOLEAN :
       \E n \in 0..MaxCodes :
       \E named \in [1..n -> BOOLEAN] : \E urn \in [1..n -> BOOLEAN] :
       \E p \in CodeParents(n) :
          /\ (~hasCl) => (n = 0 /\ ~clNamed /\ ~clUrn)
          /\ heap = MessageOf(hasCl, clNamed, clUrn, n, named, urn, p)
    /\ stack = <<>> /\ ignore = {None} /\ ss_missing_dsd = FALSE
    /\ pc = "write" /\ op = NoOp /\ ret = None /\ err = NoErr
    /\ open = <<>> /\ nev = 0
    /\ input = [m |-> 1, tree |-> NoElem, path |-> <<>>, next |-> 1]

\* to_xml(m): the tree is written, or the exception of the writer leaves to_xml.
ToXml(libexc) ==
    /\ pc = "write"
    /\ \E o \in {_sm(heap, input.m, libexc)} :
          IF o.exc # ""
            THEN /\ pc' = "failed" /\ err' = [kind |-> o.exc, cause |-> ""]
                 /\ input' = input
            ELSE /\ pc' = "read" /\ err' = err
                 /\ input' = [input EXCEPT !.tree = o.elem]
    /\ op' = [kind |-> "to_xml"]
    /\ UNCHANGED <<heap, stack, ignore, ss_missing_dsd, ret, open, nev>>

\* The element of the tree e at the path: the indices of the children, from the root.
RECURSIVE Subtree(_, _)
Subtree(e, path) ==
    IF path = <<>> THEN e ELSE Subtree(e.children[Head(path)], Tail(path))

\* The start event of the next element of the document; readable says whether the
\* parser has read the first child of the element when it reports the start.
ReadStart(readable) ==
    /\ pc = "read"
    /\ open # <<>> => input.next <= Len(Subtree(input.tree, input.path).children)
    /\ \E full \in {IF open = <<>> THEN input.tree
                    ELSE Subtree(input.tree, input.path).children[input.next]} :
       \E elem \in {[full EXCEPT !.children = <<>>]} :
       \E seen \in {IF readable /\ full.children # <<>>
                      THEN [full EXCEPT !.children = <<full.children[1]>>]
                    ELSE elem} :
       \E parent \in {IF open = <<>> THEN NoElem ELSE open[Len(open)]} :
       \E rd \in {CurRd} :
       \E t \in {Turn(rd, "start", seen, parent)} :
          /\ readable => full.children # <<>>
          /\ op' = OpOf(t, "start", elem)
          /\ IF t.exc # "" THEN Wrapped(t) /\ open' = open /\ input' = input
             ELSE /\ heap' = t.rd.heap /\ stack' = t.rd.stack /\ ignore' = t.rd.ignore
                  /\ ss_missing_dsd' = t.rd.ss
                  /\ open' = Append(open, elem)
                  /\ input' = [input EXCEPT
                                  !.path = IF open = <<>> THEN <<>> ELSE Append(@, input.next),
                                  !.next = 1]
                  /\ UNCHANGED <<pc, err, ret>>
    /\ nev' = nev + 1

\* The end event of the innermost open element, when its children have been read;
\* after the end of the root the code after the loop runs.
ReadEnd ==
    /\ pc = "read"
    /\ open # <<>>
    /\ input.next > Len(Subtree(input.tree, input.path).children)
    /\ \E elem \in {open[Len(open)]} :
       \E rest \in {SubSeq(open, 1, Len(open) - 1)} :
       \E parent \in {IF rest = <<>> THEN NoElem ELSE rest[Len(rest)]} :
       \E rd \in {CurRd} :
       \E t \in {Turn(rd, "end", elem, parent)} :
       \E left \in {IF t.cleared THEN Elem(elem.tag, NoAttrib, <<>>, <<>>) ELSE elem} :
          /\ op' = OpOf(t, "end", elem)
          /\ IF t.exc # "" THEN Wrapped(t) /\ open' = open /\ input' = input
             ELSE /\ open' = IF rest = <<>> THEN <<>>
                             ELSE [rest EXCEPT ![Len(rest)].children = Append(@, left)]
                  /\ input' = IF rest = <<>> THEN input
                              ELSE [input EXCEPT
                                       !.path = SubSeq(@, 1, Len(@) - 1),
                                       !.next = input.path[Len(input.path)] + 1]
                  /\ IF rest = <<>> THEN AfterLoop(t.rd)
                     ELSE /\ heap' = t.rd.heap /\ stack' = t.rd.stack
                          /\ ignore' = t.rd.ignore /\ ss_missing_dsd' = t.rd.ss
                          /\ UNCHANGED <<pc, err, ret>>
    /\ nev' = nev + 1

NextWrite ==
    \/ \E libexc \in {"KeyError", "TypeError"} : ToXml(libexc)
    \/ \E readable \in BOOLEAN : ReadStart(readable)
    \/ ReadEnd

SpecWrite == InitWrite /\ [][NextWrite]_vars

\* C24: for every StructureMessage m holding at most a codelist, whose codes may or
\* may not carry URNs, names and parents, the round trip ends with read_message
\* returning a message that compares equal to m under the comparison that does not
\* look at the URNs: to_xml(m) does not raise, the reader does not fail, and the
\* message read has the objects of m.
C24_RoundTrip ==
    pc \notin {"write", "read"}
        => /\ pc = "returned" /\ ret # None
           /\ CompareMessage(heap, ret, input.m)

(***************************************************************************)
(* SpecHeader: the <mes:Header> of a generic data message.  The message    *)
(* has been started and <mes:Header> is open; the caller has given the     *)
(* DSD D or none.  The events are those of one <mes:Structure> with a      *)
(* <com:Structure> and a <com:StructureUsage>, each holding a <Ref> or a   *)
(* <URN>, then the ends of the header and of the message.  input.su is     *)
(* the object that the StructureUsage reference was resolved to at the     *)
(* end of <mes:Structure> (None before it, and when there was none).       *)
(***************************************************************************)
HeaderChildTags(tag) ==
    CASE tag = Tag("mes", "Header") -> {Tag("mes", "Structure")}
      [] tag = Tag("mes", "Structure") -> {Tag("com", "Structure"), Tag("com", "StructureUsage")}
      [] tag \in {Tag("com", "Structure"), Tag("com", "StructureUsage")} ->
            {Tag("", "Ref"), Tag("", "URN")}
      [] OTHER -> {}

\* The attributes an element of that tag may carry inside the element of tag up.
HeaderAttribsOf(tag, up) ==
    CASE tag = Tag("mes", "Structure") -> {[n \in {"structureID"} |-> "S"]}
      [] tag = Tag("", "Ref") ->
            {[n \in {"id"} |-> i] : i \in {"D", "F"}}
            \cup {[n \in {"id", "class", "package"} |->
                     CASE n = "id" -> i
                       [] n = "class" -> (IF up = Tag("com", "Structure") THEN "DataStructure"
                                          ELSE "Dataflow")
                       [] OTHER -> "pkg"] : i \in {"D", "F"}}
      [] OTHER -> {NoAttrib}

\* The text an element of that tag may have inside the element of tag up.
HeaderTextsOf(tag, up) ==
    IF tag = Tag("", "URN")
      THEN {UrnText(IF up = Tag("com", "Structure") THEN "DataStructure" ELSE "Dataflow",
                    "ECB", i, "1.0", NoStr) : i \in {"D", "F"}}
      ELSE {<<>>}

\* Lines 196-202, then the start of <mes:GenericData>.
InitHeader ==
    /\ \E given \in BOOLEAN :
       \E dsd \in {IF given THEN 1 ELSE None} :
       \E rd \in {Push1(Rd(IF given THEN GivenDsd ELSE <<>>, <<>>, {dsd}, FALSE), dsd)} :
       \E o \in {_message(rd, Elem(Tag("mes", "GenericData"), NoAttrib, <<>>, <<>>), NoElem)} :
       \E r \in {Push1(o.rd, o.v)} :
          heap = r.heap /\ stack = r.stack /\ ignore = r.ignore /\ ss_missing_dsd = r.ss
    /\ pc = "header" /\ op = NoOp /\ ret = None /\ err = NoErr
    /\ open = << Elem(Tag("mes", "GenericData"), NoAttrib, <<>>, <<>>),
                 Elem(Tag("mes", "Header"), NoAttrib, <<>>, <<>>) >>
    /\ nev = 0 /\ input = [su |-> None]

\* header_su of _header_structure() (lines 455-457) on the Reader's state rd: the
\* object the StructureUsage reference on the stack is resolved to.
ResolvedUsage(rd) ==
    With([header_dsd \in {pop_resolved_ref(rd, "DataStructureDefinition", StrKey("Structure"))} |->
        pop_resolved_ref(header_dsd.rd, "object", StrKey("StructureUsage")).v])

\* A start event.
HeaderStart(tag, attrib, text) ==
    /\ pc = "header"
    /\ open # <<>>
    /\ tag \in HeaderChildTags(open[Len(open)].tag)
    /\ \A i \in 1..Len(open[Len(open)].children) : open[Len(open)].children[i].tag.ln # tag.ln
    /\ tag \in {Tag("", "Ref"), Tag("", "URN")} => open[Len(open)].children = <<>>
    /\ attrib \in HeaderAttribsOf(tag, open[Len(open)].tag)
    /\ text \in HeaderTextsOf(tag, open[Len(open)].tag)
    /\ \E elem \in {Elem(tag, attrib, text, <<>>)} :
       \E rd \in {CurRd} :
       \E t \in {Turn(rd, "start", elem, open[Len(open)])} :
          /\ op' = OpOf(t, "start", elem)
          /\ IF t.exc # "" THEN Wrapped(t) /\ open' = open
             ELSE /\ heap' = t.rd.heap /\ stack' = t.rd.stack /\ ignore' = t.rd.ignore
                  /\ ss_missing_dsd' = t.rd.ss
                  /\ open' = Append(open, elem)
                  /\ UNCHANGED <<pc, err, ret>>
    /\ input' = input
    /\ nev' = nev + 1

\* The end event of the innermost open element; after the end of the root the code
\* after the loop runs.
HeaderEnd ==
    /\ pc = "header"
    /\ open # <<>>
    /\ open[Len(open)].tag \in {Tag("com", "Structure"), Tag("com", "StructureUsage")}
          => open[Len(open)].children # <<>>
    /\ \E elem \in {open[Len(open)]} :
       \E rest \in {SubSeq(open, 1, Len(open) - 1)} :
       \E parent \in {IF rest = <<>> THEN NoElem ELSE rest[Len(rest)]} :
       \E rd \in {CurRd} :
       \E t \in {Turn(rd, "end", elem, parent)} :
       \E left \in {IF t.cleared THEN Elem(elem.tag, NoAttrib, <<>>, <<>>) ELSE elem} :
          /\ op' = OpOf(t, "end", elem)
          /\ IF t.exc # "" THEN Wrapped(t) /\ open' = open /\ input' = input
             ELSE /\ open' = IF rest = <<>> THEN <<>>
                             ELSE [rest EXCEPT ![Len(rest)].children = Append(@, left)]
                  /\ input' = IF elem.tag = Tag("mes", "Structure")
                                THEN [su |-> ResolvedUsage(rd)] ELSE input
                  /\ IF rest = <<>> THEN AfterLoop(t.rd)
                     ELSE /\ heap' = t.rd.heap /\ stack' = t.rd.stack
                          /\ ignore' = t.rd.ignore /\ ss_missing_dsd' = t.rd.ss
                          /\ UNCHANGED <<pc, err, ret>>
    /\ nev' = nev + 1

NextHeader ==
    \/ \E tag \in UNION {HeaderChildTags(g) : g \in KnownTags} :
       \E up \in {Tag("com", "Structure"), Tag("com", "StructureUsage")} :
       \E attrib \in HeaderAttribsOf(tag, up) :
       \E text \in HeaderTextsOf(tag, up) : HeaderStart(tag, attrib, text)
    \/ HeaderEnd

SpecHeader == InitHeader /\ [][NextHeader]_vars

\* C31: once the end event of a header <mes:Structure> with a StructureUsage reference
\* has been handled, the object the reference was resolved to does not count as
\* uncollected: it is not on the stack, unless it is one of the ignored objects.
C31_UsageCollected ==
    (pc = "header" /\ input.su # None /\ input.su \notin ignore) => input.su \notin OnStack(stack)

(***************************************************************************)
(* The observations of a data message and where they are attached: the     *)
(* entries of input record, for each observation made, the data set that   *)
(* was on the stack (ds), whether its element is the child of a series     *)
(* element (series) and the key of that series once it ended (key).        *)
(***************************************************************************)
\* The series keys an observation is attached under.
SeriesKeysOf(h, obs) == {v \in h[obs].links : h[v].cls = "SeriesKey"}

\* How many times the observation is among the observations of the data set.
TimesIn(h, ds, obs) == Cardinality({i \in 1..Len(h[ds].obs) : h[ds].obs[i] = obs})

\* The observation of the entry is attached as its element asks: once to its data set,
\* to no other, under the key of its series or under none.
AttachedAsAsked(h, r) ==
    /\ r.ds # None
    /\ TimesIn(h, r.ds, r.obs) = 1
    /\ \A ds \in DataSets(h) \ {r.ds} : TimesIn(h, ds, r.obs) = 0
    /\ SeriesKeysOf(h, r.obs) = IF r.series THEN {r.key} ELSE {}

\* A data set element is open.
InDataSet == \E i \in 1..Len(open) : open[i].tag = Tag("mes", "DataSet")

\* The data sets of the message are in the order of the document: objects are made in
\* the order of the document, so in the order of their identities, none twice.
InDocumentOrder(data) == \A i, j \in 1..Len(data) : i < j => data[i] < data[j]

\* C32: every Observation made between the start and the end of a DataSet is attached
\* to that DataSet exactly once, under the key of its enclosing Series if there is one
\* and ungrouped otherwise; it is on the stack until then.  Outside a DataSet element
\* no Observation and no DataSet is on the stack, and the data sets of the Message are
\* in the order of the document.
C32_ObservationsAttached ==
    pc \in {"data", "returned"} =>
        /\ \A i \in 1..Len(input) :
              input[i].obs # None =>
                 \/ /\ InDataSet
                    /\ \E j \in 1..Len(Bucket(stack, ClsKey("Observation"))) :
                          Bucket(stack, ClsKey("Observation"))[j] = input[i].obs
                    /\ \A ds \in DataSets(heap) : TimesIn(heap, ds, input[i].obs) = 0
                 \/ AttachedAsAsked(heap, input[i])
        /\ ~InDataSet =>
              /\ Bucket(stack, ClsKey("Observation")) = <<>>
              /\ Bucket(stack, ClsKey("DataSet")) = <<>>
        /\ \A m \in 1..Len(heap) : heap[m].cls \in {"DataMessage"} =>
              InDocumentOrder(heap[m].data)

(***************************************************************************)
(* SpecAr: read_message() over the events of the component lists of one    *)
(* <str:DataStructure id="D">, from the state it has when its              *)
(* <str:DataStructureComponents> is opened: the message and the DSD that   *)
(* _dsd_start() made are on the stack.  The lists come in any order, each  *)
(* at most once: a dimension list with the dimension A, a measure list     *)
(* with the primary measure M, the group G, and an attribute list whose    *)
(* attribute X has an <str:AttributeRelationship> of up to MaxRefs         *)
(* children: <str:None>, or references to A, M and G.                      *)
(***************************************************************************)
MaxArEvents == 30
MaxRefs == 3

\* The elements of an <str:AttributeRelationship> that hold a reference.
ArRefTags ==
    {Tag("str", "Dimension"), Tag("str", "PrimaryMeasure"), Tag("str", "Group"),
     Tag("str", "AttachmentGroup")}

\* The elements a document may have inside an element of that tag, itself inside an
\* element of the tag up.
ArChildTags(tag, up) ==
    CASE tag = Tag("str", "DataStructureComponents") ->
            {Tag("str", "DimensionList"), Tag("str", "MeasureList"), Tag("str", "Group"),
             Tag("str", "AttributeList")}
      [] tag = Tag("str", "DimensionList") -> {Tag("str", "Dimension")}
      [] tag = Tag("str", "MeasureList") -> {Tag("str", "PrimaryMeasure")}
      [] tag = Tag("str", "AttributeList") -> {Tag("str", "Attribute")}
      [] tag = Tag("str", "Attribute") -> {Tag("str", "AttributeRelationship")}
      [] tag = Tag("str", "AttributeRelationship") -> ArRefTags \cup {Tag("str", "None")}
      [] tag \in ArRefTags /\ up = Tag("str", "AttributeRelationship") -> {Tag("", "Ref")}
      [] OTHER -> {}

\* The number of child elements an element of that tag may have.
ArMaxChildren(tag) ==
    CASE tag = Tag("str", "DataStructureComponents") -> 4
      [] tag = Tag("str", "AttributeRelationship") -> MaxRefs
      [] OTHER -> 1

\* The id of the component or list that an element of that tag defines or refers to.
ArIdOf(tag) ==
    CASE tag = Tag("str", "Dimension") -> "A"
      [] tag = Tag("str", "PrimaryMeasure") -> "M"
      [] tag \in {Tag("str", "Group"), Tag("str", "AttachmentGroup")} -> "G"
      [] tag = Tag("str", "Attribute") -> "X"
      [] OTHER -> NoStr

\* The attributes an element of that tag carries, inside elements of the tags up and
\* upup.
ArAttribsOf(tag, up, upup) ==
    IF tag = Tag("", "Ref") THEN [n \in {"id"} |-> ArIdOf(up)]
    ELSE IF up = Tag("str", "AttributeRelationship") \/ ArIdOf(tag) = NoStr THEN NoAttrib
    ELSE [n \in {"id"} |-> ArIdOf(tag)]

\* The tag of the i-th innermost open element.
OpenTag(i) == IF Len(open) >= i THEN open[Len(open) + 1 - i].tag ELSE Tag("", "None")

InitAr ==
    /\ \E m \in {Alloc(Rd(<<>>, <<>>, {None}, FALSE), NewObj("StructureMessage", NoStr))} :
       \E ds \in {Elem(Tag("str", "DataStructure"), [n \in {"id"} |-> "D"], <<>>, <<>>)} :
       \E t \in {Turn(Push1(m, 1), "start", ds,
                      Elem(Tag("str", "DataStructures"), NoAttrib, <<>>, <<>>))} :
          /\ heap = t.rd.heap /\ stack = t.rd.stack /\ ignore = t.rd.ignore
          /\ ss_missing_dsd = t.rd.ss
          /\ open = << Elem(Tag("mes", "Structure"), NoAttrib, <<>>, <<>>),
                       Elem(Tag("mes", "Structures"), NoAttrib, <<>>, <<>>),
                       Elem(Tag("str", "DataStructures"), NoAttrib, <<>>, <<>>),
                       ds,
                       Elem(Tag("str", "DataStructureComponents"), NoAttrib, <<>>, <<>>) >>
    /\ pc = "ar" /\ op = NoOp /\ ret = None /\ err = NoErr
    /\ nev = 0 /\ input = None

\* A start event.
ArStart(tag) ==
    /\ pc = "ar"
    /\ nev + Len(open) + 2 <= MaxArEvents
    /\ open # <<>>
    /\ tag \in ArChildTags(OpenTag(1), OpenTag(2))
    /\ Len(open[Len(open)].children) < ArMaxChildren(OpenTag(1))
    \* each list at most once
    /\ OpenTag(1) = Tag("str", "DataStructureComponents") =>
          \A i \in 1..Len(open[Len(open)].children) : open[Len(open)].children[i].tag # tag
    \* <str:None> is the only child
    /\ OpenTag(1) = Tag("str", "AttributeRelationship") =>
          /\ \A i \in 1..Len(open[Len(open)].children) :
                open[Len(open)].children[i].tag # Tag("str", "None")
          /\ tag = Tag("str", "None") => open[Len(open)].children = <<>>
    /\ \E elem \in {Elem(tag, ArAttribsOf(tag, OpenTag(1), OpenTag(2)), <<>>, <<>>)} :
       \E rd \in {CurRd} :
       \E t \in {Turn(rd, "start", elem, open[Len(open)])} :
          /\ op' = OpOf(t, "start", elem)
          /\ IF t.exc # "" THEN Wrapped(t) /\ open' = open
             ELSE /\ heap' = t.rd.heap /\ stack' = t.rd.stack /\ ignore' = t.rd.ignore
                  /\ ss_missing_dsd' = t.rd.ss
                  /\ open' = Append(open, elem)
                  /\ UNCHANGED <<pc, err, ret>>
    /\ nev' = nev + 1
    /\ UNCHANGED input

\* The end event of the innermost open element; the elements with children in the
\* documents of the model end with one.  After the end of the root the code after the
\* loop runs.
ArEnd ==
    /\ pc = "ar"
    /\ open # <<>>
    /\ ArChildTags(OpenTag(1), OpenTag(2)) \ {Tag("str", "DimensionList"),
          Tag("str", "MeasureList"), Tag("str", "Group"), Tag("str", "AttributeList")} # {}
          => open[Len(open)].children # <<>>
    /\ \E elem \in {open[Len(open)]} :
       \E rest \in {SubSeq(open, 1, Len(open) - 1)} :
       \E parent \in {IF rest = <<>> THEN NoElem ELSE rest[Len(rest)]} :
       \E rd \in {CurRd} :
       \E t \in {Turn(rd, "end", elem, parent)} :
       \E left \in {IF t.cleared THEN Elem(elem.tag, NoAttrib, <<>>, <<>>) ELSE elem} :
          /\ op' = OpOf(t, "end", elem)
          /\ IF t.exc # "" THEN Wrapped(t) /\ open' = open
             ELSE /\ open' = IF rest = <<>> THEN <<>>
                             ELSE [rest EXCEPT ![Len(rest)].children = Append(@, left)]
                  /\ IF rest = <<>> THEN AfterLoop(t.rd)
                     ELSE /\ heap' = t.rd.heap /\ stack' = t.rd.stack
                          /\ ignore' = t.rd.ignore /\ ss_missing_dsd' = t.rd.ss
                          /\ UNCHANGED <<pc, err, ret>>
    /\ nev' = nev + 1
    /\ UNCHANGED input

NextAr ==
    \/ \E tag \in UNION {ArChildTags(g, u) : g, u \in KnownTags} : ArStart(tag)
    \/ ArEnd

SpecAr == InitAr /\ [][NextAr]_vars

\* The step is the end event of an <str:AttributeRelationship>.
ArEndEvent ==
    /\ pc = "ar" /\ nev' = nev + 1 /\ op'.kind = "event" /\ op'.event = "end"
    /\ op'.tag = Tag("str", "AttributeRelationship")

\* The DSD the handlers of the component lists find on the stack.
CurrentDsd == Get(CurRd, ClsKey("DataStructureDefinition"), NoStr, FALSE).v

\* The references pending on the stack that name a dimension the current DSD has.
ResolvedDimensions ==
    {r \in Range(Bucket(stack, ClsKey("Reference"))) :
        /\ IsSubclass(heap[r].ref.child_cls, "DimensionComponent")
        /\ CurrentDsd # None
        /\ heap[r].ref.child_id \in ComponentIds(heap, heap[CurrentDsd].dimensions)}

\* The class of the relationship that the claim gives the element that ends.
ExpectedRelationship ==
    IF open[Len(open)].children[1].tag = Tag("str", "None") THEN "NoSpecifiedRelationship"
    ELSE IF ResolvedDimensions # {} THEN "DimensionRelationship"
    ELSE "GroupRelationship"

\* C33: at the end event of an <str:AttributeRelationship> the handler returns a
\* NoSpecifiedRelationship when the first child is <str:None>; otherwise a
\* DimensionRelationship exactly when a pending reference names a dimension of the
\* current DSD, and a GroupRelationship in every other case, and no Reference is left
\* pending on the stack.
C33_RelationshipOfReferences ==
    [][ArEndEvent =>
          /\ op'.exc = "" /\ op'.result # None
          /\ heap'[op'.result].cls = ExpectedRelationship
          /\ ExpectedRelationship # "NoSpecifiedRelationship" =>
                Bucket(stack', ClsKey("Reference")) = <<>>]_vars

\* The relationships of the heap, by class.
Relationships(h, cls) == {v \in 1..Len(h) : h[v].cls = cls}

\* C39: every GroupRelationship that the handler of <str:AttributeRelationship> made
\* has a group_key, and every DimensionRelationship has at least one dimension.
C39_RelationshipsComplete ==
    /\ \A v \in Relationships(heap, "GroupRelationship") : heap[v].group_key # None
    /\ \A v \in Relationships(heap, "DimensionRelationship") : heap[v].dimensions # <<>>

\* C40: the end event of an <str:AttributeRelationship> never fails, whether the
\* dimension, the primary measure or the group that its references name is attached to
\* the DSD already or not yet.
C40_NoFailureByOrder ==
    [][ArEndEvent => op'.exc = "" /\ pc' = "ar"]_vars

(***************************************************************************)
(* The order of the containers that to_xml() writes into <mes:Structures>, *)
(* against the references the writer puts into the artefacts of each       *)
(* container.                                                              *)
(***************************************************************************)
\* The pairs <<user, used>> of collections of a StructureMessage: the writer of an
\* artefact of the first writes a reference to an artefact of the second.  _dfd
\* writes the structure of a dataflow; _cc the dataflows and data structures that a
\* constraint is attached to; _rep, for a concept or a component, the codelist that
\* enumerates it.
WrittenReferences ==
    { <<"dataflow", "structure">>, <<"constraint", "dataflow">>,
      <<"constraint", "structure">>, <<"concept_scheme", "codelist">>,
      <<"structure", "codelist">> }

\* The tag of the container of a collection.
ContainerTagOf(attr) ==
    Tag("str", Containers[CHOOSE i \in 1..Len(Containers) : Containers[i][1] = attr][2])

\* The places of the elements of that tag among the children of <mes:Structures> in
\* the tree written.
PlacesOf(tree, tag) ==
    {i \in 1..Len(tree.children[2].children) : tree.children[2].children[i].tag = tag}

\* C34: in the tree that to_xml() has written for a StructureMessage, the container of
\* each kind of artefact comes before the container of every kind whose artefacts
\* refer to it (the data structures before the dataflows), so that no reference in
\* the document points forward.
C34_ContainersBeforeUsers ==
    input.tree # NoElem =>
        \A p \in WrittenReferences :
            \A i \in PlacesOf(input.tree, ContainerTagOf(p[1])) :
               \A j \in PlacesOf(input.tree, ContainerTagOf(p[2])) : j < i

(***************************************************************************)
(* SpecSchemes: read_message() over the events of one item scheme, a       *)
(* <str:Codelist> of codes or a <str:ConceptScheme> of concepts, items     *)
(* nested up to MaxNesting deep.  The scheme and each item may have        *)
(* <com:Annotations>, <com:Name> and <com:Description> children, in the    *)
(* order of the schema, before the items.  At a start event the parser may *)
(* or may not have read the element's first child.  input holds, for each  *)
(* open element: whether the parser had read its first child at its start *)
(* (readable); the localizations and annotations made by its direct        *)
(* children so far (own); and the stash frames on the stack before its     *)
(* start event (frames).                                                   *)
(***************************************************************************)
MaxSchemeEvents == 16
MaxNesting == 2

SchemeTags == {Tag("str", "Codelist"), Tag("str", "ConceptScheme")}

SchemeItemTags == {Tag("str", "Code"), Tag("str", "Concept")}

\* The tag of the items of a scheme or of an item.
ItemTagOf(tag) ==
    IF tag \in {Tag("str", "Codelist"), Tag("str", "Code")} THEN Tag("str", "Code")
    ELSE Tag("str", "Concept")

\* The place of a child element in the order of the schema.
SchemaRank(tag) ==
    CASE tag = Tag("com", "Annotations") -> 1
      [] tag = Tag("com", "Name") -> 2
      [] tag = Tag("com", "Description") -> 3
      [] OTHER -> 4

\* The elements a document may have inside an element of that tag.
SchemeChildTags(tag) ==
    CASE tag \in SchemeTags \cup SchemeItemTags ->
            {Tag("com", "Annotations"), Tag("com", "Name"), Tag("com", "Description"),
             ItemTagOf(tag)}
      [] tag = Tag("com", "Annotations") -> {Tag("com", "Annotation")}
      [] OTHER -> {}

\* The attributes and the text an element of that tag carries.
SchemeAttribsOf(tag) ==
    CASE tag \in SchemeTags -> [n \in {"id"} |-> "S"]
      [] tag \in SchemeItemTags -> [n \in {"id"} |-> "A"]
      [] OTHER -> NoAttrib

SchemeTextOf(tag) ==
    IF tag \in {Tag("com", "Name"), Tag("com", "Description")} THEN <<"t">> ELSE <<>>

\* The item elements that are open.
OpenItems == {i \in 1..Len(open) : open[i].tag \in SchemeItemTags}

\* The stash frames on the stack.
StashFrames(st) == Bucket(st, StrKey("_stash"))

InitSchemes ==
    /\ heap = <<>> /\ stack = <<>> /\ ignore = {None} /\ ss_missing_dsd = FALSE
    /\ pc = "schemes" /\ op = NoOp /\ ret = None /\ err = NoErr
    /\ open = <<>> /\ nev = 0 /\ input = <<>>

\* A start event; readable says whether the parser has read the first child of the
\* element, which the document then has.
SchemeStart(tag, readable) ==
    /\ pc = "schemes"
    /\ nev + Len(open) + 2 <= MaxSchemeEvents
    \* only _item_start() looks at the children
    /\ readable => tag = Tag("str", "Code")
    /\ IF open = <<>> THEN tag \in SchemeTags /\ nev = 0
       ELSE /\ tag \in SchemeChildTags(open[Len(open)].tag)
            /\ tag \in SchemeItemTags => Cardinality(OpenItems) < MaxNesting
            \* the order of the schema, each of the first three at most once
            /\ \A i \in 1..Len(open[Len(open)].children) :
                  /\ SchemaRank(open[Len(open)].children[i].tag) <= SchemaRank(tag)
                  /\ SchemaRank(tag) < 4 => open[Len(open)].children[i].tag # tag
            /\ Len(open[Len(open)].children) < 4
    /\ \E elem \in {Elem(tag, SchemeAttribsOf(tag), SchemeTextOf(tag), <<>>)} :
       \* what the handler sees of the element: the first child, when it was read (the
       \* handlers at a start only tell a reference from the rest, and the documents of
       \* the model have none)
       \E seen \in {IF readable
                      THEN [elem EXCEPT !.children = <<Elem(Tag("com", "Name"), NoAttrib,
                                                            <<>>, <<>>)>>]
                      ELSE elem} :
       \E parent \in {IF open = <<>> THEN NoElem ELSE open[Len(open)]} :
       \E rd \in {CurRd} :
       \E t \in {Turn(rd, "start", seen, parent)} :
          /\ op' = OpOf(t, "start", elem)
          /\ IF t.exc # "" THEN Wrapped(t) /\ open' = open /\ input' = input
             ELSE /\ heap' = t.rd.heap /\ stack' = t.rd.stack /\ ignore' = t.rd.ignore
                  /\ ss_missing_dsd' = t.rd.ss
                  /\ open' = Append(open, elem)
                  /\ input' = Append(input, [readable |-> readable, own |-> {},
                                             frames |-> StashFrames(stack)])
                  /\ UNCHANGED <<pc, err, ret>>
    /\ nev' = nev + 1

\* The localization or annotation that the end event of the element made, and those
\* its children made: what the element hands to the element around it.
MadeBy(t, elem, own) ==
    CASE t.func = "_localization" -> {Len(t.rd.heap)}
      [] t.func = "_a" -> {t.result}
      [] elem.tag = Tag("com", "Annotations") -> own
      [] OTHER -> {}

\* The end event of the innermost open element; an element whose first child was read
\* at its start has one.  After the end of the root the code after the loop runs.
SchemeEnd ==
    /\ pc = "schemes"
    /\ open # <<>>
    /\ input[Len(input)].readable => open[Len(open)].children # <<>>
    /\ open[Len(open)].tag = Tag("com", "Annotations") => open[Len(open)].children # <<>>
    /\ \E elem \in {open[Len(open)]} :
       \E rest \in {SubSeq(open, 1, Len(open) - 1)} :
       \E parent \in {IF rest = <<>> THEN NoElem ELSE rest[Len(rest)]} :
       \E rd \in {CurRd} :
       \E t \in {Turn(rd, "end", elem, parent)} :
       \E left \in {IF t.cleared THEN Elem(elem.tag, NoAttrib, <<>>, <<>>) ELSE elem} :
          /\ op' = OpOf(t, "end", elem)
          /\ IF t.exc # "" THEN Wrapped(t) /\ open' = open /\ input' = input
             ELSE /\ open' = IF rest = <<>> THEN <<>>
                             ELSE [rest EXCEPT ![Len(rest)].children = Append(@, left)]
                  /\ input' = IF rest = <<>> THEN <<>>
                              ELSE [SubSeq(input, 1, Len(input) - 1) EXCEPT
                                      ![Len(rest)].own =
                                          @ \cup MadeBy(t, elem, input[Len(input)].own)]
                  /\ IF rest = <<>> THEN AfterLoop(t.rd)
                     ELSE /\ heap' = t.rd.heap /\ stack' = t.rd.stack
                          /\ ignore' = t.rd.ignore /\ ss_missing_dsd' = t.rd.ss
                          /\ UNCHANGED <<pc, err, ret>>
    /\ nev' = nev + 1

NextSchemes ==
    \/ \E tag \in SchemeTags \cup UNION {SchemeChildTags(g) : g \in KnownTags} :
          \E readable \in BOOLEAN : SchemeStart(tag, readable)
    \/ SchemeEnd

SpecSchemes == InitSchemes /\ [][NextSchemes]_vars

\* The localizations and annotations attached to the object v of the heap h.
AttachedTo(h, v) == Range(h[v].names) \cup Range(h[v].descs) \cup Range(h[v].annots)

\* The step is the end event of a scheme element that built the scheme.
SchemeEndEvent ==
    /\ pc = "schemes" /\ nev' = nev + 1 /\ op'.kind = "event" /\ op'.event = "end"
    /\ op'.tag \in SchemeTags /\ op'.exc = "" /\ op'.result # None

\* The step is the end event of an item element that built the item.
SchemeItemEndEvent ==
    /\ pc = "schemes" /\ nev' = nev + 1 /\ op'.kind = "event" /\ op'.event = "end"
    /\ op'.tag \in SchemeItemTags /\ op'.exc = "" /\ op'.result # None

\* C35: for a Codelist and for a ConceptScheme, the names, descriptions and
\* annotations given as direct children of the scheme element are attached to the
\* scheme built at its end event, and each item built has only those given as direct
\* children of its own element, so none of the scheme's.
C35_MetadataOfOwner ==
    [][/\ SchemeEndEvent => input[Len(input)].own \subseteq AttachedTo(heap', op'.result)
       /\ SchemeItemEndEvent => AttachedTo(heap', op'.result) \subseteq input[Len(input)].own
      ]_vars

\* The step is the end event of the root element, after which the stream has ended.
StreamEndEvent ==
    /\ pc = "schemes" /\ nev' = nev + 1 /\ Len(open) = 1 /\ op'.event = "end" /\ op'.exc = ""

\* C36: after the end event of an item the _stash bucket holds the frames it held
\* before the start event of that item, the same number and the same frames: the
\* frame of the item is gone and no frame of an enclosing item was restored; when the
\* stream has ended the bucket is empty.
C36_StashFramesBalanced ==
    [][/\ SchemeItemEndEvent => StashFrames(stack') = input[Len(input)].frames
       /\ StreamEndEvent => StashFrames(stack') = <<>>]_vars

(***************************************************************************)
(* Several read_message() calls on one Reader: each call reads a document  *)
(* of its own, with the DSD the caller gives or none, after the call       *)
(* before returned or raised.  The objects of earlier calls, and the       *)
(* caller's DSD, stay in the heap.  Next to the Reader runs a Reader made  *)
(* for the call, on the same heap and the same document; input holds the   *)
(* number of calls begun (reads), the state of that other Reader (fresh)   *)
(* and what the call before left on this one (left).  nev counts the       *)
(* events of all the calls.                                                *)
(***************************************************************************)
MaxReadEvents == 12
MaxReads == 2

\* Lines 196-202 without line 198, the flag staying as the call before left it.
ReadMessageBeginKeepFlag(rd, dsd) == Push1(Rd(rd.heap, <<>>, {dsd}, rd.ss), dsd)

\* Lines 196-202 without line 196, the stack staying as the call before left it.
ReadMessageBeginKeepStack(rd, dsd) == Push1(Rd(rd.heap, rd.stack, {dsd}, FALSE), dsd)

\* Lines 196-202 on the Reader's state rd: the stack, the flag, ignore and push(dsd).
ReadMessageBegin(rd, dsd) == Push1(Rd(rd.heap, <<>>, {dsd}, FALSE), dsd)

\* A call in progress: the Reader's state and what the caller has got.
Run(rd, at, e, r) == [rd |-> rd, pc |-> at, err |-> e, ret |-> r]

\* A Reader as the constructor leaves it: the class's _ss_missing_dsd, no stack yet.
NewReader(h) == Rd(h, <<>>, {}, FALSE)

\* One turn of the loop of lines 204-238 on the call run, whose turn is t; last tells
\* that the event ends the document, after which lines 229-238 run.
LoopTurn(run, t, last) ==
    IF run.pc # "reading" THEN run
    ELSE IF t.exc # ""
      THEN Run(Rd(t.rd.heap, _clean(t.rd.stack), t.rd.ignore, t.rd.ss), "failed",
               [kind |-> "XMLParseError", cause |-> t.exc], None)
    ELSE IF ~last THEN Run(t.rd, "reading", NoErr, None)
    ELSE IF CountNotIgnored(t.rd.stack, t.rd.ignore) - 1 > 0
      THEN Run(Rd(t.rd.heap, _clean(t.rd.stack), t.rd.ignore, t.rd.ss), "failed",
               [kind |-> "RuntimeError", cause |-> ""], None)
    ELSE Run(t.rd, "returned", NoErr, Get(t.rd, ClsKey("Message"), NoStr, FALSE).v)

\* The call leaves run on the Reader.
Leaves(run) ==
    /\ heap' = run.rd.heap /\ stack' = run.rd.stack /\ ignore' = run.rd.ignore
    /\ ss_missing_dsd' = run.rd.ss
    /\ pc' = run.pc /\ err' = run.err /\ ret' = run.ret

InitCalls ==
    /\ heap = GivenDsd /\ stack = <<>> /\ ignore = {} /\ ss_missing_dsd = FALSE
    /\ pc = "idle" /\ op = NoOp /\ ret = None /\ err = NoErr
    /\ open = <<>> /\ nev = 0
    /\ input = [reads |-> 0, fresh |-> Run(NewReader(GivenDsd), "idle", NoErr, None),
                left |-> Run(NewReader(GivenDsd), "idle", NoErr, None)]

\* read_message(source, dsd) is called: the caller gives its DSD or None.
CallBegin(given) ==
    /\ pc \in {"idle", "returned", "failed"}
    /\ input.reads < MaxReads
    /\ nev + 2 <= MaxReadEvents
    /\ \E dsd \in {IF given THEN 1 ELSE None} :
       \E rd \in {ReadMessageBegin(CurRd, dsd)} :
          /\ Leaves(Run(rd, "reading", NoErr, None))
          /\ op' = [kind |-> "start", n |-> nev, result |-> dsd]
          /\ input' = [reads |-> input.reads + 1,
                       fresh |-> Run(ReadMessageBegin(NewReader(heap), dsd), "reading",
                                     NoErr, None),
                       left |-> Run(CurRd, pc, err, ret)]
    /\ open' = <<>>
    /\ UNCHANGED nev

\* A start event of the document of the call.
CallStart(tag, attrib) ==
    /\ pc = "reading"
    /\ nev + Len(open) + 2 <= MaxReadEvents
    /\ IF open = <<>> THEN tag \in DataRoots
       ELSE /\ tag \in DataChildTags(open[Len(open)].tag, open[1].tag)
            /\ Len(open[Len(open)].children) < DataMaxChildren(open[Len(open)].tag)
            /\ tag = Tag("mes", "Header") => open[Len(open)].children = <<>>
            /\ (tag = Tag("gen", "SeriesKey")) = (open[Len(open)].tag = Tag("gen", "Series")
                                                  /\ open[Len(open)].children = <<>>)
    /\ attrib \in DataAttribsOf(tag)
    /\ \E elem \in {Elem(tag, attrib, <<>>, <<>>)} :
       \E parent \in {Innermost(open)} :
       \E t \in {Turn(CurRd, "start", elem, parent)} :
       \E tf \in {Turn(input.fresh.rd, "start", elem, parent)} :
          /\ op' = OpOf(t, "start", elem)
          /\ Leaves(LoopTurn(Run(CurRd, pc, err, ret), t, FALSE))
          /\ input' = [input EXCEPT !.fresh = LoopTurn(@, tf, FALSE)]
          /\ open' = IF t.exc # "" THEN open ELSE Append(open, elem)
    /\ nev' = nev + 1

\* The end event of the innermost open element of the document of the call.
CallEnd ==
    /\ pc = "reading"
    /\ open # <<>>
    /\ \E elem \in {open[Len(open)]} :
       \E rest \in {SubSeq(open, 1, Len(open) - 1)} :
       \E parent \in {Innermost(rest)} :
       \E t \in {Turn(CurRd, "end", elem, parent)} :
       \E tf \in {Turn(input.fresh.rd, "end", elem, parent)} :
       \E left \in {IF t.cleared THEN Elem(elem.tag, NoAttrib, <<>>, <<>>) ELSE elem} :
          /\ op' = OpOf(t, "end", elem)
          /\ Leaves(LoopTurn(Run(CurRd, pc, err, ret), t, rest = <<>>))
          /\ input' = [input EXCEPT !.fresh = LoopTurn(@, tf, rest = <<>>)]
          /\ open' = IF t.exc # "" THEN open
                     ELSE IF rest = <<>> THEN <<>>
                     ELSE [rest EXCEPT ![Len(rest)].children = Append(@, left)]
    /\ nev' = nev + 1

NextCalls ==
    \/ \E given \in BOOLEAN : CallBegin(given)
    \/ \E tag \in DataRoots \cup UNION {DataChildTags(g, r) : g \in KnownTags, r \in DataRoots} :
          \E attrib \in DataAttribsOf(tag) : CallStart(tag, attrib)
    \/ CallEnd

SpecCalls == InitCalls /\ [][NextCalls]_vars

\* A call has begun on the Reader.
Called == input.reads > 0

\* C37: a call begins with a stack that holds the given DSD and nothing else, an ignore
\* set of the identity of that DSD alone and the flag false, whatever the call before
\* left; and from there on the Reader's state, and what the caller gets, are those of
\* a Reader made for the call.
C37_CallsIndependent ==
    Called =>
        /\ op.kind = "start" =>
              /\ OnStack(stack) = IF op.result = None THEN {} ELSE {op.result}
              /\ ignore = {op.result}
              /\ ss_missing_dsd = FALSE
        /\ CurRd = input.fresh.rd
        /\ pc = input.fresh.pc /\ err = input.fresh.err /\ ret = input.fresh.ret

\* Witness of C37: the call before failed and left objects on the stack, identities
\* in ignore and the flag true, and this call returned a message.
C37_Witness ==
    /\ input.reads = 2
    /\ input.left.pc = "failed"
    /\ OnStack(input.left.rd.stack) # {}
    /\ input.left.rd.ss
    /\ input.left.rd.ignore # {None}
    /\ pc = "returned" /\ ret # None

\* The caller gave a DSD to the call of SpecData: it is the first object of the heap
\* (without one the first object is the message).
Provided == pc # "init_data" /\ heap # <<>> /\ heap[1].cls = "DataStructureDefinition"

\* The last event was the end of a <mes:Structure> of the header, handled without an
\* exception.
HeaderStructureEnd ==
    /\ op.kind = "event" /\ op.event = "end" /\ op.exc = ""
    /\ op.tag = Tag("mes", "Structure") /\ op.func = "_header_structure"

\* The DataStructureDefinition objects on the stack st, under whatever key.
DsdsOn(h, st) == {v \in OnStack(st) \ {None} : h[v].cls = "DataStructureDefinition"}

\* The structures stored in the dataflow of the message on the stack: the
\* DataStructureDefinition objects among the objects the message refers to.
StructuresOfMessage ==
    {v \in UNION {heap[m].links : m \in {Get(CurRd, ClsKey("Message"), NoStr, FALSE).v} \ {None}} :
        heap[v].cls = "DataStructureDefinition"}

\* C38: with a DSD given by the caller, after the end of the header's <mes:Structure>
\* the structure of the message's dataflow is the given object and no other
\* DataStructureDefinition is on the stack, and every data set that has a structure
\* is structured by the given object.
C38_ProvidedDsdOnly ==
    Provided =>
        /\ HeaderStructureEnd => /\ StructuresOfMessage = {1}
                                 /\ DsdsOn(heap, stack) = {1}
        /\ \A d \in DataSets(heap) : heap[d].structured_by \in {None, 1}

====
